---- MODULE Spec2Model ----
(***************************************************************************)
(* A model of the career-compass-bot storage adapter (GoogleSheetsClient), *)
(* its retry wrapper, its lazy sheet initialisation, the remote            *)
(* spreadsheet it talks to, and the entry-logging command that drives it.  *)
(***************************************************************************)
EXTENDS Integers, Sequences, FiniteSets, TLC

(***************************************************************************)
(* Bounds of the model.                                                    *)
(***************************************************************************)
\* Operations a run may begin (client construction to process end).
MaxOps == 2
\* Largest max_retries explored for the retry wrapper on its own.
MaxRetriesBound == 4
\* max_retries the modelled client is constructed with.
ClientMaxRetries == 2
\* max_retries of the client that two threads share.
SharedMaxRetries == 1
\* Entry-logging commands handled in one run.
MaxLogs == 1
\* the most rows a tab holds before the process starts
MaxStored == 2
\* Calls of the summarizer in one run.
MaxSummaries == 3
\* The most milestone rows the GoalMilestones tab holds.
MaxMilestones == 3

(***************************************************************************)
(* Schema registry: google_sheets_client.py module constants.              *)
(***************************************************************************)
HEADERS == <<"Timestamp", "Date", "Type", "Text", "Tags", "Source">>
ACCOMPLISHMENTS_HEADERS == HEADERS
GOAL_HEADERS ==
    <<"GoalID", "Title", "Description", "WeightPercentage", "Status",
      "CompletionPercentage", "StartDate", "EndDate", "TargetDate", "Owner",
      "Notes", "LifecycleStatus", "SupersededBy", "LastModified", "Archived",
      "History">>
GOAL_STATUSES == {"Not Started", "In Progress", "Blocked", "Completed", "Deferred"}
GOAL_LIFECYCLE_STATUSES == {"Active", "Archived", "Superseded", "Updated"}
COMPETENCY_HEADERS == <<"CompetencyID", "Name", "Category", "Status", "Description">>
COMPETENCY_STATUSES == {"Active", "Inactive"}
GOAL_MAPPING_HEADERS == <<"EntryTimestamp", "EntryDate", "GoalID", "CompetencyID", "Notes">>
GOAL_MILESTONE_HEADERS ==
    <<"GoalID", "Title", "TargetDate", "CompletionDate", "Status", "Notes">>
GOAL_MILESTONE_STATUSES == {"Not Started", "In Progress", "Blocked", "Completed", "Deferred"}
GOAL_REVIEW_HEADERS == <<"GoalID", "ReviewType", "Notes", "Rating", "ReviewedOn">>
GOAL_EVALUATION_HEADERS == <<"GoalID", "EvaluationType", "Notes", "Rating", "EvaluatedOn">>
COMPETENCY_EVALUATION_HEADERS == <<"CompetencyID", "Notes", "Rating", "EvaluatedOn">>
REMINDER_SETTINGS_HEADERS ==
    <<"Category", "TargetID", "Frequency", "Enabled", "Channel", "Notes">>

\* The default sheet_name of the client: the entry-log tab.
EntrySheet == "Accomplishments"
DomainSheets ==
    {"Goals", "Competencies", "GoalMappings", "GoalMilestones", "GoalReviews",
     "GoalEvaluations", "CompetencyEvaluations", "ReminderSettings"}
Sheets == {EntrySheet} \cup DomainSheets

\* The headers each public method passes for its sheet.
HeadersOf(sheet) ==
    CASE sheet = "Accomplishments" -> ACCOMPLISHMENTS_HEADERS
      [] sheet = "Goals" -> GOAL_HEADERS
      [] sheet = "Competencies" -> COMPETENCY_HEADERS
      [] sheet = "GoalMappings" -> GOAL_MAPPING_HEADERS
      [] sheet = "GoalMilestones" -> GOAL_MILESTONE_HEADERS
      [] sheet = "GoalReviews" -> GOAL_REVIEW_HEADERS
      [] sheet = "GoalEvaluations" -> GOAL_EVALUATION_HEADERS
      [] sheet = "CompetencyEvaluations" -> COMPETENCY_EVALUATION_HEADERS
      [] sheet = "ReminderSettings" -> REMINDER_SETTINGS_HEADERS

(***************************************************************************)
(* Python values.  A record is a function from keys to strings; a key the  *)
(* dict does not hold reads as None.                                       *)
(***************************************************************************)
None == "<None>"
EmptyRec == [k \in {} |-> ""]
\* A dict literal entry; a None value leaves the key out.
Fld(k, v) == IF v = None THEN EmptyRec ELSE (k :> v)
\* dict.get(key)
Get(r, k) == IF k \in DOMAIN r THEN r[k] ELSE None
\* dict.get(key, default)
GetD(r, k, d) == IF k \in DOMAIN r THEN r[k] ELSE d
\* bool(value) of a string or None
Truthy(v) == v # None /\ v # ""
\* a or b
Or(a, b) == IF Truthy(a) THEN a ELSE b

\* The wall clock read by datetime.utcnow().
TodayIso == "2024-06-03"
NowIso == "2024-06-03T09:00:00"

\* The characters of every string the validators parse.
Chars(s) ==
    CASE s = "" -> <<>>
      [] s = "2024-06-01" -> <<"2","0","2","4","-","0","6","-","0","1">>
      [] s = "2024-06-03" -> <<"2","0","2","4","-","0","6","-","0","3">>
      [] s = "2024-12-31" -> <<"2","0","2","4","-","1","2","-","3","1">>
      [] s = "2024-05-01" -> <<"2","0","2","4","-","0","5","-","0","1">>
      [] s = "2024-05-20" -> <<"2","0","2","4","-","0","5","-","2","0">>
      [] s = "2024-06-02" -> <<"2","0","2","4","-","0","6","-","0","2">>
      [] s = "2024-06-10" -> <<"2","0","2","4","-","0","6","-","1","0">>
      [] s = "2024-06-17" -> <<"2","0","2","4","-","0","6","-","1","7">>
      [] s = "2024-02-30" -> <<"2","0","2","4","-","0","2","-","3","0">>
      [] s = "2024-6-1" -> <<"2","0","2","4","-","6","-","1">>
      [] s = "06/01/2024" -> <<"0","6","/","0","1","/","2","0","2","4">>
      [] s = "2024-06-03T09:00:00" ->
            <<"2","0","2","4","-","0","6","-","0","3","T","0","9",":","0","0",":","0","0">>
      [] s = "Date" -> <<"D","a","t","e">>
      [] s = "yesterday" -> <<"y","e","s","t","e","r","d","a","y">>
      [] s = "50" -> <<"5","0">>
      [] s = "50.0" -> <<"5","0",".","0">>
      [] s = " 50 " -> <<" ","5","0"," ">>
      [] s = "100" -> <<"1","0","0">>
      [] s = "150" -> <<"1","5","0">>
      [] s = "-1" -> <<"-","1">>
      [] s = "nan" -> <<"n","a","n">>
      [] s = "half" -> <<"h","a","l","f">>
      [] OTHER -> <<"?">>

Digits == {"0","1","2","3","4","5","6","7","8","9"}
DigitVal(c) ==
    CASE c = "0" -> 0 [] c = "1" -> 1 [] c = "2" -> 2 [] c = "3" -> 3 [] c = "4" -> 4
      [] c = "5" -> 5 [] c = "6" -> 6 [] c = "7" -> 7 [] c = "8" -> 8 [] c = "9" -> 9

RECURSIVE NumVal(_)
\* int() of a sequence of digits
NumVal(cs) == IF cs = <<>> THEN 0 ELSE 10 * NumVal(SubSeq(cs, 1, Len(cs) - 1)) + DigitVal(cs[Len(cs)])
AllDigits(cs) == \A i \in 1..Len(cs) : cs[i] \in Digits

\* Index of the first occurrence of c in cs, or 0.
IndexOf(cs, c) ==
    IF \E i \in 1..Len(cs) : cs[i] = c
    THEN CHOOSE i \in 1..Len(cs) : cs[i] = c /\ \A j \in 1..(i - 1) : cs[j] # c
    ELSE 0

DaysInMonth(y, m) ==
    IF m \in {1, 3, 5, 7, 8, 10, 12} THEN 31
    ELSE IF m \in {4, 6, 9, 11} THEN 30
    ELSE IF (y % 4 = 0 /\ y % 100 # 0) \/ y % 400 = 0 THEN 29 ELSE 28

\* datetime.strptime(value, "%Y-%m-%d") succeeds: four year digits, one or two
\* month digits, one or two day digits, all of the input consumed, and a day
\* the month has.
StrptimeOk(cs) ==
    LET d1 == IndexOf(cs, "-")
        rest == IF d1 = 0 THEN <<>> ELSE SubSeq(cs, d1 + 1, Len(cs))
        d2 == IndexOf(rest, "-")
        ys == IF d1 = 0 THEN <<>> ELSE SubSeq(cs, 1, d1 - 1)
        ms == IF d2 = 0 THEN <<>> ELSE SubSeq(rest, 1, d2 - 1)
        ds == IF d2 = 0 THEN <<>> ELSE SubSeq(rest, d2 + 1, Len(rest))
    IN  /\ d1 # 0 /\ d2 # 0
        /\ Len(ys) = 4 /\ AllDigits(ys)
        /\ Len(ms) \in {1, 2} /\ AllDigits(ms)
        /\ Len(ds) \in {1, 2} /\ AllDigits(ds)
        /\ NumVal(ms) \in 1..12
        /\ NumVal(ds) \in 1..DaysInMonth(NumVal(ys), NumVal(ms))

\* value.split("T")[0]
SplitT0(cs) == IF IndexOf(cs, "T") = 0 THEN cs ELSE SubSeq(cs, 1, IndexOf(cs, "T") - 1)

RECURSIVE StripChars(_)
\* str.strip() on the characters
StripChars(cs) ==
    IF cs = <<>> THEN cs
    ELSE IF cs[1] = " " THEN StripChars(Tail(cs))
    ELSE IF cs[Len(cs)] = " " THEN StripChars(SubSeq(cs, 1, Len(cs) - 1))
    ELSE cs
\* str(value).strip() as a string of the universe
Strip(s) == IF s = " 50 " THEN "50" ELSE s

\* float(value) parses: optional blanks, optional sign, digits with an
\* optional fraction, or nan.
FloatOk(cs) ==
    LET b == StripChars(cs)
        u == IF b # <<>> /\ b[1] \in {"-", "+"} THEN Tail(b) ELSE b
        p == IndexOf(u, ".")
        ip == IF p = 0 THEN u ELSE SubSeq(u, 1, p - 1)
        fp == IF p = 0 THEN <<>> ELSE SubSeq(u, p + 1, Len(u))
    IN  \/ u = <<"n","a","n">>
        \/ /\ AllDigits(ip) /\ AllDigits(fp)
           /\ Len(ip) + Len(fp) > 0
\* the parsed number is below 0 or above 100 (nan compares false to both)
FloatOutOfRange(cs) ==
    LET b == StripChars(cs)
        neg == b # <<>> /\ b[1] = "-"
        u == IF b # <<>> /\ b[1] \in {"-", "+"} THEN Tail(b) ELSE b
        p == IndexOf(u, ".")
        ip == IF p = 0 THEN u ELSE SubSeq(u, 1, p - 1)
        fp == IF p = 0 THEN <<>> ELSE SubSeq(u, p + 1, Len(u))
    IN  /\ u # <<"n","a","n">>
        /\ \/ neg /\ (NumVal(ip) > 0 \/ NumVal(fp) > 0)
           \/ ~neg /\ (NumVal(ip) > 100 \/ (NumVal(ip) = 100 /\ NumVal(fp) > 0))

(***************************************************************************)
(* Validator.  Each check yields "" when the value passes and the kind of  *)
(* ValueError it raises otherwise; First keeps the first error raised.     *)
(***************************************************************************)
NoError == ""
RECURSIVE First(_)
First(errs) == IF errs = <<>> THEN NoError
               ELSE IF errs[1] # NoError THEN errs[1] ELSE First(Tail(errs))

_validate_status(value, allowed) ==
    IF value \notin allowed THEN "invalid_status" ELSE NoError
_validate_non_empty(value) ==
    IF ~Truthy(value) THEN "required" ELSE NoError
_validate_percentage_field(value) ==
    IF value \in {None, ""} THEN NoError
    ELSE IF ~FloatOk(Chars(value)) THEN "percentage"
    ELSE IF FloatOutOfRange(Chars(value)) THEN "percentage" ELSE NoError
_validate_date_field(value, allow_empty) ==
    IF ~Truthy(value) /\ allow_empty THEN NoError
    ELSE IF value = None THEN "type_error"
    ELSE IF ~StrptimeOk(Chars(value)) THEN "date" ELSE NoError

(***************************************************************************)
(* Pre-write validation of each entity (row_number = 0).                   *)
(***************************************************************************)
_validate_goal(goal) ==
    First(<<
        _validate_status(GetD(goal, "status", ""), GOAL_STATUSES),
        _validate_status(Or(Get(goal, "lifecyclestatus"), GetD(goal, "lifecycle_status", "Active")),
                         GOAL_LIFECYCLE_STATUSES),
        _validate_percentage_field(
            Or(Get(goal, "weightpercentage"),
               Or(Get(goal, "weight_percentage"), GetD(goal, "weight", "")))),
        _validate_percentage_field(
            Or(Get(goal, "completionpercentage"),
               Or(Get(goal, "completion_percentage"),
                  Or(Get(goal, "complete_percentage"), GetD(goal, "completepercent", ""))))),
        _validate_date_field(Or(Get(goal, "startdate"), GetD(goal, "start_date", "")), TRUE),
        _validate_date_field(Or(Get(goal, "enddate"), GetD(goal, "end_date", "")), TRUE),
        _validate_date_field(Or(Get(goal, "targetdate"), GetD(goal, "target_date", "")), TRUE),
        _validate_non_empty(Or(Get(goal, "goalid"), Or(Get(goal, "goal_id"), GetD(goal, "id", "")))),
        _validate_non_empty(GetD(goal, "title", ""))
    >>)

_validate_goal_milestone(milestone) ==
    First(<<
        _validate_non_empty(
            Or(Get(milestone, "goalid"), Or(Get(milestone, "goal_id"), GetD(milestone, "goal", "")))),
        _validate_non_empty(
            Or(Get(milestone, "title"), Or(Get(milestone, "milestone"), GetD(milestone, "name", "")))),
        _validate_status(GetD(milestone, "status", "Not Started"), GOAL_MILESTONE_STATUSES),
        _validate_date_field(Or(Get(milestone, "targetdate"), GetD(milestone, "target_date", "")), TRUE),
        _validate_date_field(
            Or(Get(milestone, "completiondate"),
               Or(Get(milestone, "completion_date"), GetD(milestone, "completedon", ""))), TRUE)
    >>)

_validate_goal_review(review) ==
    First(<<
        _validate_non_empty(
            Or(Get(review, "goalid"), Or(Get(review, "goal_id"), GetD(review, "goal", "")))),
        _validate_non_empty(Or(Get(review, "reviewtype"), GetD(review, "review_type", ""))),
        _validate_date_field(
            Or(Get(review, "reviewedon"),
               Or(Get(review, "reviewed_on"), Or(Get(review, "date"), TodayIso))), FALSE)
    >>)

_validate_goal_evaluation(evaluation) ==
    First(<<
        _validate_non_empty(
            Or(Get(evaluation, "goalid"), Or(Get(evaluation, "goal_id"), GetD(evaluation, "goal", "")))),
        _validate_non_empty(
            Or(Get(evaluation, "evaluationtype"),
               Or(Get(evaluation, "evaluation_type"), GetD(evaluation, "type", "")))),
        _validate_date_field(
            Or(Get(evaluation, "evaluatedon"),
               Or(Get(evaluation, "evaluated_on"), Or(Get(evaluation, "date"), TodayIso))), FALSE)
    >>)

_validate_competency_evaluation(evaluation) ==
    First(<<
        _validate_non_empty(
            Or(Get(evaluation, "competencyid"),
               Or(Get(evaluation, "competency_id"), GetD(evaluation, "competency", "")))),
        _validate_date_field(
            Or(Get(evaluation, "evaluatedon"),
               Or(Get(evaluation, "evaluated_on"), Or(Get(evaluation, "date"), TodayIso))), FALSE)
    >>)

_validate_competency(competency) ==
    First(<<
        _validate_status(GetD(competency, "status", ""), COMPETENCY_STATUSES),
        _validate_non_empty(
            Or(Get(competency, "competencyid"),
               Or(Get(competency, "competency_id"), GetD(competency, "id", "")))),
        _validate_non_empty(GetD(competency, "name", ""))
    >>)

\* goal_id / competency_id as _validate_goal_mapping resolves them
MappingGoalId(mapping) ==
    Or(Get(mapping, "goalid"), Or(Get(mapping, "goal_id"), GetD(mapping, "goal", "")))
MappingCompetencyId(mapping) ==
    Or(Get(mapping, "competencyid"),
       Or(Get(mapping, "competency_id"), GetD(mapping, "competency", "")))

\* The mutual-exclusion rule with the both-populated check dropped.
_validate_goal_mapping_allows_both(mapping) ==
    First(<<
        _validate_non_empty(
            Or(Get(mapping, "entrytimestamp"),
               Or(Get(mapping, "entry_timestamp"), GetD(mapping, "timestamp", "")))),
        _validate_date_field(
            Or(Get(mapping, "entrydate"), Or(Get(mapping, "entry_date"), GetD(mapping, "date", ""))),
            FALSE),
        IF ~Truthy(MappingGoalId(mapping)) /\ ~Truthy(MappingCompetencyId(mapping))
        THEN "mapping_neither" ELSE NoError
    >>)

_validate_goal_mapping(mapping) ==
    First(<<
        _validate_non_empty(
            Or(Get(mapping, "entrytimestamp"),
               Or(Get(mapping, "entry_timestamp"), GetD(mapping, "timestamp", "")))),
        _validate_date_field(
            Or(Get(mapping, "entrydate"), Or(Get(mapping, "entry_date"), GetD(mapping, "date", ""))),
            FALSE),
        IF Truthy(MappingGoalId(mapping)) /\ Truthy(MappingCompetencyId(mapping))
        THEN "mapping_both" ELSE NoError,
        IF ~Truthy(MappingGoalId(mapping)) /\ ~Truthy(MappingCompetencyId(mapping))
        THEN "mapping_neither" ELSE NoError
    >>)

(***************************************************************************)
(* Row encoding: the values list each append method builds.                *)
(***************************************************************************)
EntryValues(record) ==
    <<GetD(record, "timestamp", ""), GetD(record, "date", ""), GetD(record, "type", ""),
      GetD(record, "text", ""), GetD(record, "tags", ""), GetD(record, "source", "")>>

GoalValues(goal) ==
    <<Or(Get(goal, "goalid"), Or(Get(goal, "goal_id"), GetD(goal, "id", ""))),
      GetD(goal, "title", ""),
      GetD(goal, "description", ""),
      Strip(GetD(goal, "weightpercentage", GetD(goal, "weight_percentage", ""))),
      GetD(goal, "status", ""),
      Strip(GetD(goal, "completionpercentage", GetD(goal, "completion_percentage", ""))),
      Or(Get(goal, "startdate"), GetD(goal, "start_date", "")),
      Or(Get(goal, "enddate"), GetD(goal, "end_date", "")),
      Or(Get(goal, "targetdate"), GetD(goal, "target_date", "")),
      GetD(goal, "owner", ""),
      GetD(goal, "notes", ""),
      Or(Get(goal, "lifecyclestatus"), GetD(goal, "lifecycle_status", "Active")),
      Or(Get(goal, "supersededby"), GetD(goal, "superseded_by", "")),
      Or(Get(goal, "lastmodified"), GetD(goal, "last_modified", NowIso)),
      Strip(GetD(goal, "archived", "")),
      GetD(goal, "history", "")>>

CompetencyValues(competency) ==
    <<Or(Get(competency, "competencyid"),
         Or(Get(competency, "competency_id"), GetD(competency, "id", ""))),
      GetD(competency, "name", ""),
      GetD(competency, "category", ""),
      GetD(competency, "status", ""),
      GetD(competency, "description", "")>>

GoalMappingValues(mapping) ==
    <<Or(Get(mapping, "entrytimestamp"),
         Or(Get(mapping, "entry_timestamp"), GetD(mapping, "timestamp", ""))),
      Or(Get(mapping, "entrydate"), Or(Get(mapping, "entry_date"), GetD(mapping, "date", ""))),
      Or(Get(mapping, "goalid"), Or(Get(mapping, "goal_id"), GetD(mapping, "goal", ""))),
      Or(Get(mapping, "competencyid"),
         Or(Get(mapping, "competency_id"), GetD(mapping, "competency", ""))),
      GetD(mapping, "notes", "")>>

GoalMilestoneValues(milestone) ==
    <<Or(Get(milestone, "goalid"), Or(Get(milestone, "goal_id"), GetD(milestone, "goal", ""))),
      Or(Get(milestone, "title"), Or(Get(milestone, "milestone"), GetD(milestone, "name", ""))),
      Or(Get(milestone, "targetdate"), GetD(milestone, "target_date", "")),
      Or(Get(milestone, "completiondate"),
         Or(Get(milestone, "completion_date"), GetD(milestone, "completedon", ""))),
      GetD(milestone, "status", ""),
      GetD(milestone, "notes", "")>>

GoalReviewValues(review) ==
    <<Or(Get(review, "goalid"), Or(Get(review, "goal_id"), GetD(review, "goal", ""))),
      Or(Get(review, "reviewtype"), GetD(review, "review_type", "")),
      GetD(review, "notes", ""),
      GetD(review, "rating", ""),
      Or(Get(review, "reviewedon"),
         Or(Get(review, "reviewed_on"), Or(Get(review, "date"), TodayIso)))>>

GoalEvaluationValues(evaluation) ==
    <<Or(Get(evaluation, "goalid"), Or(Get(evaluation, "goal_id"), GetD(evaluation, "goal", ""))),
      Or(Get(evaluation, "evaluationtype"),
         Or(Get(evaluation, "evaluation_type"), GetD(evaluation, "type", ""))),
      GetD(evaluation, "notes", ""),
      GetD(evaluation, "rating", ""),
      Or(Get(evaluation, "evaluatedon"),
         Or(Get(evaluation, "evaluated_on"), Or(Get(evaluation, "date"), TodayIso)))>>

CompetencyEvaluationValues(evaluation) ==
    <<Or(Get(evaluation, "competencyid"),
         Or(Get(evaluation, "competency_id"), GetD(evaluation, "competency", ""))),
      GetD(evaluation, "notes", ""),
      GetD(evaluation, "rating", ""),
      Or(Get(evaluation, "evaluatedon"),
         Or(Get(evaluation, "evaluated_on"), Or(Get(evaluation, "date"), TodayIso)))>>

\* str(setting.get("enabled", True))
ReminderSettingValues(setting) ==
    <<GetD(setting, "category", ""),
      Or(Get(setting, "targetid"), Or(Get(setting, "target_id"), GetD(setting, "target", ""))),
      GetD(setting, "frequency", ""),
      GetD(setting, "enabled", "True"),
      GetD(setting, "channel", ""),
      GetD(setting, "notes", "")>>

\* _append_row: the values cut or padded to the header count.
NormalizedValues(values, headers) ==
    [i \in 1..Len(headers) |-> IF i <= Len(values) THEN values[i] ELSE ""]

(***************************************************************************)
(* State.                                                                  *)
(***************************************************************************)
VARIABLES
    max_retries,    \* GoogleSheetsClient.max_retries
    service,        \* GoogleSheetsClient._service, and whether credentials can build it
    initialized,    \* GoogleSheetsClient._initialized_sheets
    titles,         \* remote spreadsheet: the titles of its tabs
    header,         \* remote spreadsheet: the header row of each tab (<<>>: none)
    data,           \* remote spreadsheet: the data rows of each tab
    thr,            \* worker threads: the adapter operation each is running
    ops,            \* adapter operations begun so far
    rt,             \* one _execute_with_retries call observed on its own
    log,            \* the command handler at work on an update
    app             \* the process around the handlers: configuration and startup,
                    \* the summarizer, the weekly reminder

vars == <<max_retries, service, initialized, titles, header, data, thr, ops, rt, log, app>>

Threads == {"t1", "t2"}

(***************************************************************************)
(* _execute_with_retries.  A call state holds the loop's locals and what   *)
(* the loop did: the outcome of every underlying call and every sleep.     *)
(***************************************************************************)
NoCall ==
    [status |-> "none", attempt |-> 0, delay |-> 0, calls |-> <<>>, waits |-> <<>>,
     result |-> None, error |-> None]

\* Entering the function: delay = 1 and the first iteration of
\* range(1, max_retries + 1), or falling off the loop when it is empty.
RetryEnter(max) ==
    IF max < 1
    THEN [NoCall EXCEPT !.status = "returned", !.delay = 1]
    ELSE [NoCall EXCEPT !.status = "calling", !.attempt = 1, !.delay = 1]

\* func() returned res: return func()
RetryAfterSuccess(c, res) ==
    [c EXCEPT !.status = "returned", !.result = res, !.calls = Append(c.calls, [ok |-> TRUE, val |-> res])]

\* The except branch with the delay left as it is.
RetryAfterFailureNoDoubling(c, exc, max) ==
    IF c.attempt = max
    THEN [c EXCEPT !.status = "raised", !.error = exc, !.calls = Append(c.calls, [ok |-> FALSE, val |-> exc])]
    ELSE [c EXCEPT !.attempt = c.attempt + 1, !.waits = Append(c.waits, c.delay),
                   !.calls = Append(c.calls, [ok |-> FALSE, val |-> exc])]

\* The except branch that gives up one attempt too early.
RetryAfterFailureGivesUpEarly(c, exc, max) ==
    IF c.attempt >= max - 1
    THEN [c EXCEPT !.status = "raised", !.error = exc, !.calls = Append(c.calls, [ok |-> FALSE, val |-> exc])]
    ELSE [c EXCEPT !.attempt = c.attempt + 1, !.waits = Append(c.waits, c.delay),
                   !.delay = 2 * c.delay, !.calls = Append(c.calls, [ok |-> FALSE, val |-> exc])]

\* The except branch that raises a wrapped error when the retries run out.
RetryAfterFailureWrapsError(c, exc, max) ==
    IF c.attempt = max
    THEN [c EXCEPT !.status = "raised", !.error = "retries_exhausted",
                   !.calls = Append(c.calls, [ok |-> FALSE, val |-> exc])]
    ELSE [c EXCEPT !.attempt = c.attempt + 1, !.waits = Append(c.waits, c.delay),
                   !.delay = 2 * c.delay, !.calls = Append(c.calls, [ok |-> FALSE, val |-> exc])]

\* func() raised exc: re-raise on the last attempt, else sleep(delay),
\* delay *= 2 and the next iteration.
RetryAfterFailure(c, exc, max) ==
    IF c.attempt = max
    THEN [c EXCEPT !.status = "raised", !.error = exc, !.calls = Append(c.calls, [ok |-> FALSE, val |-> exc])]
    ELSE [c EXCEPT !.attempt = c.attempt + 1, !.waits = Append(c.waits, c.delay),
                   !.delay = 2 * c.delay, !.calls = Append(c.calls, [ok |-> FALSE, val |-> exc])]

(***************************************************************************)
(* The retry wrapper on its own, around a callable that returns one of     *)
(* RetryResults or raises one of RetryErrors.                              *)
(***************************************************************************)
RetryResults == {"r1", "r2"}
RetryErrors == {"HttpError", "TimeoutError"}

\* _execute_with_retries(func, action) is entered
RetryCall ==
    /\ rt.status \in {"none", "returned", "raised"}
    /\ rt' = RetryEnter(max_retries)
    /\ UNCHANGED <<app, max_retries, service, initialized, titles, header, data, thr, ops, log>>

\* one iteration whose func() returns
RetryAttemptReturns ==
    /\ rt.status = "calling"
    /\ \E res \in RetryResults : rt' = RetryAfterSuccess(rt, res)
    /\ UNCHANGED <<app, max_retries, service, initialized, titles, header, data, thr, ops, log>>

\* one iteration whose func() raises
RetryAttemptRaises ==
    /\ rt.status = "calling"
    /\ \E exc \in RetryErrors : rt' = RetryAfterFailure(rt, exc, max_retries)
    /\ UNCHANGED <<app, max_retries, service, initialized, titles, header, data, thr, ops, log>>

(***************************************************************************)
(* The remote spreadsheet as the transport presents it.                    *)
(***************************************************************************)
\* values().get(range="<sheet>!A:<col>"): the header row, when there is one,
\* followed by the data rows.
RemoteValues(sheet) == (IF header[sheet] = <<>> THEN <<>> ELSE <<header[sheet]>>) \o data[sheet]
\* values().get(range="<sheet>!A1:<col>1"): the header row, when there is one.
RemoteHeaderValues(sheet) == IF header[sheet] = <<>> THEN <<>> ELSE <<header[sheet]>>
\* A header row an operator's edit leaves behind: the first column renamed.
DriftedHeader(sheet) == <<"Renamed">> \o Tail(HeadersOf(sheet))
\* row[:n]
Take(row, n) == IF Len(row) <= n THEN row ELSE SubSeq(row, 1, n)

(***************************************************************************)
(* One adapter operation running on a worker thread.                       *)
(***************************************************************************)
NoResult == [kind |-> "none", val |-> <<>>, err |-> "", row |-> 0]
Ok(v) == [kind |-> "ok", val |-> v, err |-> "", row |-> 0]
OkNone == [kind |-> "ok", val |-> <<>>, err |-> "", row |-> 0]
Err(e, n) == [kind |-> "error", val |-> <<>>, err |-> e, row |-> n]

IdleThread ==
    [pc |-> "idle", op |-> "", kind |-> "", sheet |-> "", create |-> FALSE, allow |-> FALSE,
     values |-> <<>>, arg |-> <<>>, call |-> NoCall, trace |-> <<>>,
     result |-> NoResult, readyAtStart |-> FALSE, owner |-> ""]

\* An exception leaves the public method.
Raise(th, e, n) == [th EXCEPT !.pc = "done", !.result = Err(e, n)]

\* The code after _ensure_sheet_initialized_for returns, up to the next
\* remote call of the operation.
AfterInit(th) ==
    CASE th.kind = "append" -> [th EXCEPT !.pc = "append", !.call = RetryEnter(max_retries)]
      [] th.kind = "rows" -> [th EXCEPT !.pc = "get_rows", !.call = RetryEnter(max_retries)]
      [] th.kind = "entries" -> [th EXCEPT !.pc = "get_entries", !.call = RetryEnter(max_retries)]
      [] th.kind = "setup" -> [th EXCEPT !.pc = "done", !.result = OkNone]

\* The initialiser without its ready-set early return.
_ensure_sheet_initialized_for_always_checks(th) ==
    [th EXCEPT !.pc = "get_metadata", !.call = RetryEnter(max_retries)]

\* _ensure_sheet_initialized_for up to its first remote call: return at once
\* when the sheet is in the ready set, else go on to _ensure_sheet_exists.
_ensure_sheet_initialized_for(th) ==
    IF th.sheet \in initialized
    THEN AfterInit(th)
    ELSE [th EXCEPT !.pc = "get_metadata", !.call = RetryEnter(max_retries)]

\* _ensure_sheet_exists that creates whatever tab is missing.
_ensure_sheet_exists_creates_any(th, sheet_titles) ==
    IF th.sheet \in sheet_titles
    THEN [th EXCEPT !.pc = "get_headers", !.call = RetryEnter(max_retries)]
    ELSE [th EXCEPT !.pc = "create_sheet", !.call = RetryEnter(max_retries)]

\* _ensure_sheet_exists after the metadata arrived.
_ensure_sheet_exists(th, sheet_titles) ==
    IF th.sheet \in sheet_titles
    THEN [th EXCEPT !.pc = "get_headers", !.call = RetryEnter(max_retries)]
    ELSE IF ~th.create
    THEN Raise(th, "sheet_missing", 0)
    ELSE [th EXCEPT !.pc = "create_sheet", !.call = RetryEnter(max_retries)]

\* _ensure_headers that takes a tab without header row as ready.
_ensure_headers_accepts_empty(th, values) ==
    IF values = <<>> \/ Take(values[1], Len(HeadersOf(th.sheet))) = HeadersOf(th.sheet)
    THEN [th EXCEPT !.pc = "ready"]
    ELSE IF ~th.allow
    THEN Raise(th, "header_mismatch", 0)
    ELSE [th EXCEPT !.pc = "update_headers", !.call = RetryEnter(max_retries)]

\* _ensure_headers after the header row arrived: the operation's next state,
\* before the sheet is marked ready.
_ensure_headers(th, values) ==
    IF values # <<>> /\ Take(values[1], Len(HeadersOf(th.sheet))) = HeadersOf(th.sheet)
    THEN [th EXCEPT !.pc = "ready"]
    ELSE IF ~th.allow
    THEN Raise(th, "header_mismatch", 0)
    ELSE [th EXCEPT !.pc = "update_headers", !.call = RetryEnter(max_retries)]

\* _get_sheet_rows that trusts the ready set and skips the header comparison.
_get_sheet_rows_trusts_ready(sheet, values) ==
    IF values = <<>> THEN Ok(<<>>) ELSE Ok(Tail(values))

\* _get_sheet_rows over a range that ends after the first data row.
_get_sheet_rows_bounded_range(sheet, values) ==
    IF values = <<>> THEN Ok(<<>>)
    ELSE IF Take(values[1], Len(HeadersOf(sheet))) # HeadersOf(sheet)
    THEN Err("header_mismatch", 0)
    ELSE Ok(Take(Tail(values), 1))

\* _get_sheet_rows after the full range arrived.
_get_sheet_rows(sheet, values) ==
    IF values = <<>> THEN Ok(<<>>)
    ELSE IF Take(values[1], Len(HeadersOf(sheet))) # HeadersOf(sheet)
    THEN Err("header_mismatch", 0)
    ELSE Ok(Tail(values))

\* _get_service inside a request closure: the injected or cached service, or
\* one built from credentials that load.
_get_service == service # "invalid" /\ service' = "ready"

\* The thread is inside _execute_with_retries for the remote call `pc`.
Calling(t, pc) == thr[t].pc = pc /\ thr[t].call.status = "calling"

\* The operation's record after one more underlying call of `action`.
Called(th, action, c) == [th EXCEPT !.call = c, !.trace = Append(th.trace, action)]

UnchangedRemote == UNCHANGED <<titles, header, data>>
UnchangedOthers == UNCHANGED <<app, max_retries, ops, rt, log>>

(***************************************************************************)
(* Row decoding and post-read validation.                                  *)
(***************************************************************************)
\* header.lower()
Lower(h) ==
    CASE h = "Timestamp" -> "timestamp" [] h = "Date" -> "date" [] h = "Type" -> "type"
      [] h = "Text" -> "text" [] h = "Tags" -> "tags" [] h = "Source" -> "source"
      [] h = "GoalID" -> "goalid" [] h = "Title" -> "title"
      [] h = "Description" -> "description" [] h = "WeightPercentage" -> "weightpercentage"
      [] h = "Status" -> "status" [] h = "CompletionPercentage" -> "completionpercentage"
      [] h = "StartDate" -> "startdate" [] h = "EndDate" -> "enddate"
      [] h = "TargetDate" -> "targetdate" [] h = "Owner" -> "owner" [] h = "Notes" -> "notes"
      [] h = "LifecycleStatus" -> "lifecyclestatus" [] h = "SupersededBy" -> "supersededby"
      [] h = "LastModified" -> "lastmodified" [] h = "Archived" -> "archived"
      [] h = "History" -> "history" [] h = "CompetencyID" -> "competencyid"
      [] h = "Name" -> "name" [] h = "Category" -> "category"
      [] h = "EntryTimestamp" -> "entrytimestamp" [] h = "EntryDate" -> "entrydate"
      [] h = "CompletionDate" -> "completiondate" [] h = "ReviewType" -> "reviewtype"
      [] h = "Rating" -> "rating" [] h = "ReviewedOn" -> "reviewedon"
      [] h = "EvaluationType" -> "evaluationtype" [] h = "EvaluatedOn" -> "evaluatedon"
      [] h = "TargetID" -> "targetid" [] h = "Frequency" -> "frequency"
      [] h = "Enabled" -> "enabled" [] h = "Channel" -> "channel"

\* The row padded with "" and cut to the header count.
\* A row padded with a placeholder in place of the empty string.
_normalize_row_length_pads_dash(row, headers) ==
    [i \in 1..Len(headers) |-> IF i <= Len(row) THEN row[i] ELSE "-"]

_normalize_row_length(row, headers) ==
    [i \in 1..Len(headers) |-> IF i <= Len(row) THEN row[i] ELSE ""]

\* dict(zip([header.lower() for header in headers], cells)): zip stops at the
\* shorter of the two.
ZipRecord(headers, cells) ==
    LET n == IF Len(cells) < Len(headers) THEN Len(cells) ELSE Len(headers)
    IN  [k \in {Lower(headers[i]) : i \in 1..n} |->
            cells[CHOOSE i \in 1..n : Lower(headers[i]) = k /\
                                      \A j \in (i + 1)..n : Lower(headers[j]) # k]]

\* Each normaliser yields the ValueError it raises ("" for none) and the
\* record it returns.
_normalize_goal_row(row) ==
    LET record == ZipRecord(GOAL_HEADERS, _normalize_row_length(row, GOAL_HEADERS))
        lifecycle_value == Or(record["lifecyclestatus"], "Active")
    IN  [error |-> First(<<
            _validate_status(record["status"], GOAL_STATUSES),
            _validate_status(lifecycle_value, GOAL_LIFECYCLE_STATUSES),
            _validate_percentage_field(record["weightpercentage"]),
            _validate_percentage_field(record["completionpercentage"]),
            _validate_date_field(record["startdate"], TRUE),
            _validate_date_field(record["enddate"], TRUE),
            _validate_date_field(record["targetdate"], TRUE),
            IF Truthy(record["lastmodified"])
               /\ SplitT0(Chars(record["lastmodified"])) # <<>>
               /\ ~StrptimeOk(SplitT0(Chars(record["lastmodified"])))
            THEN "date" ELSE NoError,
            _validate_non_empty(record["goalid"]),
            _validate_non_empty(record["title"])>>),
         record |-> [record EXCEPT !["lifecyclestatus"] = lifecycle_value]]

_normalize_goal_milestone_row(row) ==
    LET record == ZipRecord(GOAL_MILESTONE_HEADERS,
                            _normalize_row_length(row, GOAL_MILESTONE_HEADERS))
        status_value == Or(record["status"], "Not Started")
    IN  [error |-> First(<<
            _validate_non_empty(record["goalid"]),
            _validate_non_empty(record["title"]),
            _validate_status(status_value, GOAL_MILESTONE_STATUSES),
            _validate_date_field(record["targetdate"], TRUE),
            _validate_date_field(record["completiondate"], TRUE)>>),
         record |-> [record EXCEPT !["status"] = status_value]]

_normalize_competency_row(row) ==
    LET record == ZipRecord(COMPETENCY_HEADERS, _normalize_row_length(row, COMPETENCY_HEADERS))
    IN  [error |-> First(<<
            _validate_status(record["status"], COMPETENCY_STATUSES),
            _validate_non_empty(record["competencyid"]),
            _validate_non_empty(record["name"])>>),
         record |-> record]

_normalize_goal_review_row(row) ==
    LET record == ZipRecord(GOAL_REVIEW_HEADERS, _normalize_row_length(row, GOAL_REVIEW_HEADERS))
    IN  [error |-> First(<<
            _validate_non_empty(record["goalid"]),
            _validate_non_empty(record["reviewtype"]),
            _validate_date_field(record["reviewedon"], FALSE)>>),
         record |-> record]

_normalize_goal_evaluation_row(row) ==
    LET record == ZipRecord(GOAL_EVALUATION_HEADERS,
                            _normalize_row_length(row, GOAL_EVALUATION_HEADERS))
    IN  [error |-> First(<<
            _validate_non_empty(record["goalid"]),
            _validate_non_empty(record["evaluationtype"]),
            _validate_date_field(record["evaluatedon"], FALSE)>>),
         record |-> record]

_normalize_competency_evaluation_row(row) ==
    LET record == ZipRecord(COMPETENCY_EVALUATION_HEADERS,
                            _normalize_row_length(row, COMPETENCY_EVALUATION_HEADERS))
    IN  [error |-> First(<<
            _validate_non_empty(record["competencyid"]),
            _validate_date_field(record["evaluatedon"], FALSE)>>),
         record |-> record]

_normalize_reminder_setting_row(row) ==
    LET record == ZipRecord(REMINDER_SETTINGS_HEADERS,
                            _normalize_row_length(row, REMINDER_SETTINGS_HEADERS))
    IN  [error |-> _validate_non_empty(record["category"]), record |-> record]

\* A mapping normaliser that rejects a row holding both ids, as the pre-write
\* check does.
_normalize_goal_mapping_row_rejects_both(row) ==
    LET record == ZipRecord(GOAL_MAPPING_HEADERS,
                            _normalize_row_length(row, GOAL_MAPPING_HEADERS))
    IN  [error |-> First(<<
            _validate_non_empty(record["entrytimestamp"]),
            _validate_date_field(record["entrydate"], FALSE),
            IF Truthy(record["goalid"]) /\ Truthy(record["competencyid"])
            THEN "mapping_both" ELSE NoError,
            IF ~Truthy(record["goalid"]) /\ ~Truthy(record["competencyid"])
            THEN "mapping_neither" ELSE NoError>>),
         record |-> record,
         warning |-> FALSE]

\* warning: the logger.warning issued for a legacy row holding both ids.
_normalize_goal_mapping_row(row) ==
    LET record == ZipRecord(GOAL_MAPPING_HEADERS,
                            _normalize_row_length(row, GOAL_MAPPING_HEADERS))
    IN  [error |-> First(<<
            _validate_non_empty(record["entrytimestamp"]),
            _validate_date_field(record["entrydate"], FALSE),
            IF ~Truthy(record["goalid"]) /\ ~Truthy(record["competencyid"])
            THEN "mapping_neither" ELSE NoError>>),
         record |-> record,
         warning |-> Truthy(record["goalid"]) /\ Truthy(record["competencyid"])]

\* The normaliser each list method applies to the rows of its sheet.
NormalizeRow(sheet, row) ==
    CASE sheet = "Goals" -> _normalize_goal_row(row)
      [] sheet = "GoalMilestones" -> _normalize_goal_milestone_row(row)
      [] sheet = "Competencies" -> _normalize_competency_row(row)
      [] sheet = "GoalReviews" -> _normalize_goal_review_row(row)
      [] sheet = "GoalEvaluations" -> _normalize_goal_evaluation_row(row)
      [] sheet = "CompetencyEvaluations" -> _normalize_competency_evaluation_row(row)
      [] sheet = "ReminderSettings" -> _normalize_reminder_setting_row(row)
      [] sheet = "GoalMappings" -> _normalize_goal_mapping_row(row)

\* [normalize(row, index) for index, row in enumerate(rows, start=2)]: the
\* records in row order, or the error of the first row that fails with the
\* row number it was given.
\* A list that leaves out the rows that fail validation.
NormalizeRows_skips_invalid(sheet, rows) ==
    LET Valid(row) == NormalizeRow(sheet, row).error = NoError
        good == SelectSeq(rows, Valid)
    IN  Ok([i \in 1..Len(good) |-> NormalizeRow(sheet, good[i]).record])

NormalizeRows(sheet, rows) ==
    LET bad == {i \in 1..Len(rows) : NormalizeRow(sheet, rows[i]).error # NoError}
    IN  IF bad = {}
        THEN Ok([i \in 1..Len(rows) |-> NormalizeRow(sheet, rows[i]).record])
        ELSE LET i == CHOOSE i \in bad : \A j \in bad : i <= j
             IN  Err(NormalizeRow(sheet, rows[i]).error, i + 1)

\* Code points of the characters compared by the date filter.
CharCode(c) ==
    CASE c = " " -> 32 [] c = "-" -> 45 [] c = "." -> 46 [] c = "/" -> 47
      [] c \in Digits -> 48 + DigitVal(c)
      [] c = ":" -> 58 [] c = "?" -> 63 [] c = "D" -> 68 [] c = "T" -> 84
      [] c = "a" -> 97 [] c = "e" -> 101 [] c = "t" -> 116
      [] OTHER -> 110

RECURSIVE StrLeq(_, _)
\* a <= b on strings, by their characters
StrLeq(a, b) ==
    IF a = <<>> THEN TRUE
    ELSE IF b = <<>> THEN FALSE
    ELSE IF CharCode(a[1]) # CharCode(b[1]) THEN CharCode(a[1]) < CharCode(b[1])
    ELSE StrLeq(Tail(a), Tail(b))

\* row + [""] * (len(HEADERS) - len(row))
PadRow(row, n) == [i \in 1..(IF Len(row) > n THEN Len(row) ELSE n) |->
                      IF i <= Len(row) THEN row[i] ELSE ""]

\* A date filter whose upper bound is exclusive.
InRange_excludes_end(entry, start_date, end_date) ==
    /\ StrLeq(Chars(start_date), Chars(GetD(entry, "date", "")))
    /\ StrLeq(Chars(GetD(entry, "date", "")), Chars(end_date))
    /\ GetD(entry, "date", "") # end_date

\* start_date <= entry_date <= end_date
InRange(entry, start_date, end_date) ==
    /\ StrLeq(Chars(start_date), Chars(GetD(entry, "date", "")))
    /\ StrLeq(Chars(GetD(entry, "date", "")), Chars(end_date))

RECURSIVE FilterEntries(_, _, _)
FilterEntries(rows, start_date, end_date) ==
    IF rows = <<>> THEN <<>>
    ELSE LET entry == ZipRecord(HEADERS, PadRow(rows[1], Len(HEADERS)))
             rest == FilterEntries(Tail(rows), start_date, end_date)
         IN  IF InRange(entry, start_date, end_date) THEN <<entry>> \o rest ELSE rest

\* get_entries_by_date_range after the full range arrived.
get_entries_result(values, start_date, end_date) ==
    IF values = <<>> THEN Ok(<<>>)
    ELSE Ok(FilterEntries(
                IF Take(values[1], Len(HEADERS)) = HEADERS THEN Tail(values) ELSE values,
                start_date, end_date))

(***************************************************************************)
(* The underlying remote calls.  Each action is one request.execute() made *)
(* inside _execute_with_retries together with the adapter code that runs   *)
(* on its return, up to the operation's next remote call.                  *)
(***************************************************************************)
\* spreadsheets().get(fields="sheets.properties.title") returns
_execute_get_metadata(t) ==
    /\ Calling(t, "get_metadata")
    /\ _get_service
    /\ LET th == Called(thr[t], "get_metadata", RetryAfterSuccess(thr[t].call, "metadata"))
       IN  thr' = [thr EXCEPT ![t] = _ensure_sheet_exists(th, titles)]
    /\ UNCHANGED initialized
    /\ UnchangedRemote /\ UnchangedOthers

\* A create-sheet return that already marks the sheet ready.
_execute_create_sheet_marks_ready(t) ==
    /\ Calling(t, "create_sheet")
    /\ _get_service
    /\ titles' = titles \cup {thr[t].sheet}
    /\ initialized' = initialized \cup {thr[t].sheet}
    /\ LET th == Called(thr[t], "create_sheet", RetryAfterSuccess(thr[t].call, "created"))
       IN  thr' = [thr EXCEPT ![t] = [th EXCEPT !.pc = "get_headers",
                                                !.call = RetryEnter(max_retries)]]
    /\ UNCHANGED <<header, data>>
    /\ UnchangedOthers

\* spreadsheets().batchUpdate(addSheet) returns: the tab exists afterwards
_execute_create_sheet(t) ==
    /\ Calling(t, "create_sheet")
    /\ _get_service
    /\ titles' = titles \cup {thr[t].sheet}
    /\ LET th == Called(thr[t], "create_sheet", RetryAfterSuccess(thr[t].call, "created"))
       IN  thr' = [thr EXCEPT ![t] = [th EXCEPT !.pc = "get_headers",
                                                !.call = RetryEnter(max_retries)]]
    /\ UNCHANGED <<initialized, header, data>>
    /\ UnchangedOthers

\* A header read that marks the sheet ready before the header is compared.
_execute_get_headers_marks_ready_first(t) ==
    /\ Calling(t, "get_headers")
    /\ _get_service
    /\ LET th == Called(thr[t], "get_headers", RetryAfterSuccess(thr[t].call, "header"))
           nx == _ensure_headers(th, RemoteHeaderValues(th.sheet))
       IN  /\ initialized' = initialized \cup {th.sheet}
           /\ thr' = [thr EXCEPT ![t] = IF nx.pc = "ready" THEN AfterInit(nx) ELSE nx]
    /\ UnchangedRemote /\ UnchangedOthers

\* values().get(range=header_range) returns; a matching header marks the
\* sheet ready
_execute_get_headers(t) ==
    /\ Calling(t, "get_headers")
    /\ _get_service
    /\ LET th == Called(thr[t], "get_headers", RetryAfterSuccess(thr[t].call, "header"))
           nx == _ensure_headers(th, RemoteHeaderValues(th.sheet))
       IN  IF nx.pc = "ready"
           THEN /\ initialized' = initialized \cup {th.sheet}
                /\ thr' = [thr EXCEPT ![t] = AfterInit(nx)]
           ELSE /\ initialized' = initialized
                /\ thr' = [thr EXCEPT ![t] = nx]
    /\ UnchangedRemote /\ UnchangedOthers

\* A header write that replaces the whole tab by the header row.
_execute_update_headers_clears_rows(t) ==
    /\ Calling(t, "update_headers")
    /\ _get_service
    /\ header' = [header EXCEPT ![thr[t].sheet] = HeadersOf(thr[t].sheet)]
    /\ data' = [data EXCEPT ![thr[t].sheet] = <<>>]
    /\ initialized' = initialized \cup {thr[t].sheet}
    /\ LET th == Called(thr[t], "update_headers", RetryAfterSuccess(thr[t].call, "updated"))
       IN  thr' = [thr EXCEPT ![t] = AfterInit(th)]
    /\ UNCHANGED titles
    /\ UnchangedOthers

\* values().update(range=header_range, body=[headers]) returns; the sheet is
\* marked ready
_execute_update_headers(t) ==
    /\ Calling(t, "update_headers")
    /\ _get_service
    /\ header' = [header EXCEPT ![thr[t].sheet] = HeadersOf(thr[t].sheet)]
    /\ initialized' = initialized \cup {thr[t].sheet}
    /\ LET th == Called(thr[t], "update_headers", RetryAfterSuccess(thr[t].call, "updated"))
       IN  thr' = [thr EXCEPT ![t] = AfterInit(th)]
    /\ UNCHANGED <<titles, data>>
    /\ UnchangedOthers

\* values().append(body=[normalized_values]) returns updatedRows = 1
\* An append that reports a written row and stores none.
_execute_append_writes_nothing(t) ==
    /\ Calling(t, "append")
    /\ _get_service
    /\ LET th == Called(thr[t], "append", RetryAfterSuccess(thr[t].call, "updatedRows=1"))
       IN  thr' = [thr EXCEPT ![t] = [th EXCEPT !.pc = "done", !.result = OkNone]]
    /\ UNCHANGED <<initialized, titles, header, data>>
    /\ UnchangedOthers

_execute_append(t) ==
    /\ Calling(t, "append")
    /\ _get_service
    /\ data' = [data EXCEPT ![thr[t].sheet] =
                    Append(@, NormalizedValues(thr[t].values, HeadersOf(thr[t].sheet)))]
    /\ LET th == Called(thr[t], "append", RetryAfterSuccess(thr[t].call, "updatedRows=1"))
       IN  thr' = [thr EXCEPT ![t] = [th EXCEPT !.pc = "done", !.result = OkNone]]
    /\ UNCHANGED <<initialized, titles, header>>
    /\ UnchangedOthers

\* values().append returns a body that reports no written row
\* An append whose empty response is taken for success.
_execute_append_no_effect_returns(t) ==
    /\ Calling(t, "append")
    /\ _get_service
    /\ LET th == Called(thr[t], "append", RetryAfterSuccess(thr[t].call, "no updates"))
       IN  thr' = [thr EXCEPT ![t] = [th EXCEPT !.pc = "done", !.result = OkNone]]
    /\ UNCHANGED initialized
    /\ UnchangedRemote /\ UnchangedOthers

_execute_append_no_effect(t) ==
    /\ Calling(t, "append")
    /\ _get_service
    /\ LET th == Called(thr[t], "append", RetryAfterSuccess(thr[t].call, "no updates"))
       IN  thr' = [thr EXCEPT ![t] = Raise(th, "no_rows_written", 0)]
    /\ UNCHANGED initialized
    /\ UnchangedRemote /\ UnchangedOthers

\* values().get(range=range_ref) of _get_sheet_rows returns; the list method
\* normalises the rows
_execute_get_rows(t) ==
    /\ Calling(t, "get_rows")
    /\ _get_service
    /\ LET th == Called(thr[t], "get_rows", RetryAfterSuccess(thr[t].call, "values"))
           rows == _get_sheet_rows(th.sheet, RemoteValues(th.sheet))
       IN  thr' = [thr EXCEPT ![t] =
                      [th EXCEPT !.pc = "done",
                                 !.result = IF rows.kind = "error" THEN rows
                                            ELSE NormalizeRows(th.sheet, rows.val)]]
    /\ UNCHANGED initialized
    /\ UnchangedRemote /\ UnchangedOthers

\* values().get(range="<sheet>!A:F") of get_entries_by_date_range returns
_execute_get_entries(t) ==
    /\ Calling(t, "get_entries")
    /\ _get_service
    /\ LET th == Called(thr[t], "get_entries", RetryAfterSuccess(thr[t].call, "values"))
       IN  thr' = [thr EXCEPT ![t] =
                      [th EXCEPT !.pc = "done",
                                 !.result = get_entries_result(RemoteValues(th.sheet),
                                                               th.arg[1], th.arg[2])]]
    /\ UNCHANGED initialized
    /\ UnchangedRemote /\ UnchangedOthers

\* request.execute() raises: the except branch of _execute_with_retries, and
\* the error leaving the operation when the attempts are used up
ExecuteRaises(t) ==
    /\ thr[t].call.status = "calling"
    /\ _get_service
    /\ LET c == RetryAfterFailure(thr[t].call, "HttpError", max_retries)
           th == Called(thr[t], thr[t].pc, c)
       IN  thr' = [thr EXCEPT ![t] = IF c.status = "raised" THEN Raise(th, c.error, 0) ELSE th]
    /\ UNCHANGED initialized
    /\ UnchangedRemote /\ UnchangedOthers

\* values().append is applied by the remote store but its response is lost:
\* the row is written and the call raises
ExecuteAppendLost(t) ==
    /\ Calling(t, "append")
    /\ _get_service
    /\ data' = [data EXCEPT ![thr[t].sheet] =
                    Append(@, NormalizedValues(thr[t].values, HeadersOf(thr[t].sheet)))]
    /\ LET c == RetryAfterFailure(thr[t].call, "HttpError", max_retries)
           th == Called(thr[t], "append", c)
       IN  thr' = [thr EXCEPT ![t] = IF c.status = "raised" THEN Raise(th, c.error, 0) ELSE th]
    /\ UNCHANGED <<initialized, titles, header>>
    /\ UnchangedOthers

\* _get_service raises inside the request closure (_load_credentials finds no
\* usable credential): the except branch of _execute_with_retries
_get_service_raises(t) ==
    /\ thr[t].call.status = "calling"
    /\ service = "invalid"
    /\ LET c == RetryAfterFailure(thr[t].call, "CredentialsError", max_retries)
           th == Called(thr[t], thr[t].pc, c)
       IN  thr' = [thr EXCEPT ![t] = IF c.status = "raised" THEN Raise(th, c.error, 0) ELSE th]
    /\ UNCHANGED <<initialized, service>>
    /\ UnchangedRemote /\ UnchangedOthers

\* An operator edits the header row of a tab by hand.  An edit made before
\* the client first touches the tab is a tab provisioned with a drifted header.
OperatorEditsHeader(sheet) ==
    /\ sheet \in titles
    /\ sheet \in initialized
    /\ header[sheet] = HeadersOf(sheet)
    /\ header' = [header EXCEPT ![sheet] = DriftedHeader(sheet)]
    /\ UNCHANGED <<app, max_retries, service, initialized, titles, data, thr, ops, rt, log>>

\* An operator repairs a tab out of band: the tab is created if it is
\* missing and its first row set to the schema's header.
OperatorRepairsSheet(sheet) ==
    /\ sheet \notin titles \/ header[sheet] # HeadersOf(sheet)
    /\ titles' = titles \cup {sheet}
    /\ header' = [header EXCEPT ![sheet] = HeadersOf(sheet)]
    /\ UNCHANGED <<app, max_retries, service, initialized, data, thr, ops, rt, log>>

\* The caller takes the result (or the exception) and the worker is free.
Return(t) ==
    /\ thr[t].pc = "done"
    /\ thr[t].owner = "caller"
    /\ thr' = [thr EXCEPT ![t] = IdleThread]
    /\ UNCHANGED <<app, max_retries, service, initialized, titles, header, data, ops, rt, log>>

(***************************************************************************)
(* The public methods of the client, each up to its first remote call:     *)
(* validation, then _append_row / _get_sheet_rows entering the sheet       *)
(* initialiser.                                                            *)
(***************************************************************************)
\* The pool hands a call to its first free worker.
FreeWorker(t) ==
    /\ thr[t].pc = "idle"
    /\ \A u \in Threads : thr[u].pc = "idle" => (u = t \/ t = "t1")

\* The row a pre-write error message reports: "at row 0" from the field
\* validators; the either/or messages of _validate_goal_mapping and a
\* TypeError carry no row.
NoRow == -1
PreWriteRow(verr) ==
    IF verr \in {"mapping_both", "mapping_neither", "type_error"} THEN NoRow ELSE 0

Begin(t, op, kind, sheet, create, allow, verr, values, arg, owner) ==
    /\ FreeWorker(t)
    /\ LET base == [IdleThread EXCEPT !.op = op, !.kind = kind, !.sheet = sheet,
                                      !.create = create, !.allow = allow, !.arg = arg,
                                      !.owner = owner,
                                      !.readyAtStart = (sheet \in initialized)]
       IN  thr' = [thr EXCEPT ![t] =
                      IF verr # NoError
                      THEN Raise(base, verr, PreWriteRow(verr))
                      ELSE _ensure_sheet_initialized_for([base EXCEPT !.values = values])]
    /\ UNCHANGED <<app, max_retries, service, initialized, titles, header, data, rt>>

append_entry(t, record, owner) ==
    Begin(t, "append_entry", "append", EntrySheet, TRUE, TRUE, NoError,
          EntryValues(record), <<>>, owner)

append_goal(t, goal, owner) ==
    Begin(t, "append_goal", "append", "Goals", FALSE, FALSE, _validate_goal(goal),
          GoalValues(goal), <<>>, owner)

append_competency(t, competency, owner) ==
    Begin(t, "append_competency", "append", "Competencies", FALSE, FALSE,
          _validate_competency(competency), CompetencyValues(competency), <<>>, owner)

append_goal_mapping(t, mapping, owner) ==
    Begin(t, "append_goal_mapping", "append", "GoalMappings", FALSE, FALSE,
          _validate_goal_mapping(mapping), GoalMappingValues(mapping), <<>>, owner)

append_goal_milestone(t, milestone, owner) ==
    Begin(t, "append_goal_milestone", "append", "GoalMilestones", FALSE, FALSE,
          _validate_goal_milestone(milestone), GoalMilestoneValues(milestone), <<>>, owner)

append_goal_review(t, review, owner) ==
    Begin(t, "append_goal_review", "append", "GoalReviews", FALSE, FALSE,
          _validate_goal_review(review), GoalReviewValues(review), <<>>, owner)

append_goal_evaluation(t, evaluation, owner) ==
    Begin(t, "append_goal_evaluation", "append", "GoalEvaluations", FALSE, FALSE,
          _validate_goal_evaluation(evaluation), GoalEvaluationValues(evaluation), <<>>, owner)

append_competency_evaluation(t, evaluation, owner) ==
    Begin(t, "append_competency_evaluation", "append", "CompetencyEvaluations", FALSE, FALSE,
          _validate_competency_evaluation(evaluation), CompetencyEvaluationValues(evaluation),
          <<>>, owner)

append_reminder_setting(t, setting, owner) ==
    Begin(t, "append_reminder_setting", "append", "ReminderSettings", FALSE, FALSE, NoError,
          ReminderSettingValues(setting), <<>>, owner)

get_goals(t, owner) ==
    Begin(t, "get_goals", "rows", "Goals", FALSE, FALSE, NoError, <<>>, <<>>, owner)

get_goal_milestones(t, owner) ==
    Begin(t, "get_goal_milestones", "rows", "GoalMilestones", FALSE, FALSE, NoError,
          <<>>, <<>>, owner)

get_competencies(t, owner) ==
    Begin(t, "get_competencies", "rows", "Competencies", FALSE, FALSE, NoError,
          <<>>, <<>>, owner)

get_goal_reviews(t, owner) ==
    Begin(t, "get_goal_reviews", "rows", "GoalReviews", FALSE, FALSE, NoError,
          <<>>, <<>>, owner)

get_goal_evaluations(t, owner) ==
    Begin(t, "get_goal_evaluations", "rows", "GoalEvaluations", FALSE, FALSE, NoError,
          <<>>, <<>>, owner)

get_competency_evaluations(t, owner) ==
    Begin(t, "get_competency_evaluations", "rows", "CompetencyEvaluations", FALSE, FALSE,
          NoError, <<>>, <<>>, owner)

get_reminder_settings(t, owner) ==
    Begin(t, "get_reminder_settings", "rows", "ReminderSettings", FALSE, FALSE, NoError,
          <<>>, <<>>, owner)

get_goal_mappings(t, owner) ==
    Begin(t, "get_goal_mappings", "rows", "GoalMappings", FALSE, FALSE, NoError,
          <<>>, <<>>, owner)

get_entries_by_date_range(t, start_date, end_date, owner) ==
    Begin(t, "get_entries_by_date_range", "entries", EntrySheet, TRUE, TRUE, NoError,
          <<>>, <<start_date, end_date>>, owner)

ensure_sheet_setup(t, owner) ==
    Begin(t, "ensure_sheet_setup", "setup", EntrySheet, TRUE, TRUE, NoError, <<>>, <<>>, owner)

(***************************************************************************)
(* The requests a caller makes.                                            *)
(***************************************************************************)
EntryInputs ==
    {[timestamp |-> "2024-06-03T09:00:00", date |-> d, type |-> "task", text |-> "Prep slides",
      tags |-> "#planning", source |-> "telegram"] : d \in {"2024-06-01", "2024-06-03"}}
    \cup {[timestamp |-> "", date |-> "", type |-> "task", text |-> "", tags |-> "",
           source |-> "telegram"]}

GoalInputs ==
    {Fld("goal_id", "G-1") @@ Fld("title", ti) @@ Fld("status", st)
        @@ Fld(wk, w) @@ Fld("targetdate", td) :
        ti \in {None, "Ship beta"}, st \in {"In Progress", "Done"},
        wk \in {"weightpercentage", "weight"}, w \in {"50", "150"},
        td \in {None, "2024-12-31", "yesterday"}}

CompetencyInputs ==
    {Fld("competencyid", "communication") @@ Fld("name", n) @@ Fld("status", st) :
        n \in {"", "Communication"}, st \in {"Active", "Retired"}}

GoalMappingInputs ==
    {Fld("entrytimestamp", ts) @@ Fld("entrydate", d) @@ Fld(gk, g) @@ Fld(ck, c) :
        ts \in {None, "2024-06-03T09:00:00"}, d \in {"2024-06-03", "yesterday"},
        gk \in {"goalid", "goal_id"}, g \in {None, "", "G-1"},
        ck \in {"competencyid", "competency"}, c \in {None, "C-1"}}

GoalMilestoneInputs ==
    {Fld("goalid", g) @@ Fld("title", ti) @@ Fld("status", "Completed")
        @@ Fld("completiondate", cd) :
        g \in {"", "G-1"}, ti \in {None, "Draft"}, cd \in {"2024-06-01", "06/01/2024"}}

GoalReviewInputs ==
    {Fld("goalid", g) @@ Fld("reviewtype", rty) @@ Fld("reviewedon", d) :
        g \in {"", "G-1"}, rty \in {None, "midyear"}, d \in {None, "yesterday"}}

GoalEvaluationInputs ==
    {Fld("goalid", g) @@ Fld("evaluationtype", ety) @@ Fld("rating", "meets") :
        g \in {None, "G-1"}, ety \in {"", "yearend"}}

CompetencyEvaluationInputs ==
    {Fld("competencyid", c) @@ Fld("evaluatedon", d) :
        c \in {"", "communication"}, d \in {"2024-06-01", "06/01/2024"}}

ReminderSettingInputs ==
    {Fld("category", c) @@ Fld("targetid", "G-1") @@ Fld("frequency", "weekly") :
        c \in {None, "", "milestone"}}

DateRanges == {<<"2024-06-01", "2024-06-01">>, <<"2024-06-01", "2024-12-31">>}

(***************************************************************************)
(* The entry-logging command (/log, /task, /idea): _log_with_type.         *)
(***************************************************************************)
MAX_ENTRY_LENGTH == 1000

\* The entry texts a user sends after the command name.
LogTexts ==
    {"", "Shipped the beta", "Shipped #goal:GOAL-1", "Mentored #comp:communication",
     "Completed rollout #goal:GOAL-1 #comp:communication", "<1001 characters>"}
\* len(entry_text)
TextLen(text) ==
    CASE text = "" -> 0 [] text = "Shipped the beta" -> 16 [] text = "Shipped #goal:GOAL-1" -> 20
      [] text = "Mentored #comp:communication" -> 28
      [] text = "Completed rollout #goal:GOAL-1 #comp:communication" -> 50
      [] text = "<1001 characters>" -> 1001
\* extract_goal_ids: the matches of GOAL_ID_PATTERN, normalised, deduplicated
extract_goal_ids(text) ==
    CASE text \in {"Shipped #goal:GOAL-1", "Completed rollout #goal:GOAL-1 #comp:communication"}
            -> <<"GOAL-1">>
      [] OTHER -> <<>>
\* extract_competency_tags: the matches of COMPETENCY_TAG_PATTERN in lower
\* case; the pattern also matches the "Comp" that starts "Completed"
extract_competency_tags(text) ==
    CASE text = "Mentored #comp:communication" -> <<"communication">>
      [] text = "Completed rollout #goal:GOAL-1 #comp:communication" -> <<"leted", "communication">>
      [] OTHER -> <<>>
\* " ".join(extract_tags(text))
JoinedTags(text) ==
    CASE text = "Shipped #goal:GOAL-1" -> "#goal"
      [] text = "Mentored #comp:communication" -> "#comp"
      [] text = "Completed rollout #goal:GOAL-1 #comp:communication" -> "#goal #comp"
      [] OTHER -> ""

normalize_entry(text, entry_type) ==
    [timestamp |-> NowIso, date |-> TodayIso, type |-> entry_type, text |-> text,
     tags |-> JoinedTags(text), source |-> "telegram"]

MappingRow(ts, d, g, c) ==
    [entrytimestamp |-> ts, entrydate |-> d, goalid |-> g, competencyid |-> c, notes |-> ""]

RECURSIVE Flatten(_)
Flatten(ss) == IF ss = <<>> THEN <<>> ELSE ss[1] \o Flatten(Tail(ss))

\* build_goal_competency_mappings that writes one row per identifier.
build_goal_competency_mappings_single_ids(entry_timestamp, entry_date, goal_ids, competency_ids) ==
    [i \in 1..Len(goal_ids) |-> MappingRow(entry_timestamp, entry_date, goal_ids[i], "")]
    \o [j \in 1..Len(competency_ids) |->
            MappingRow(entry_timestamp, entry_date, "", competency_ids[j])]

build_goal_competency_mappings(entry_timestamp, entry_date, goal_ids, competency_ids) ==
    IF goal_ids # <<>>
    THEN Flatten([i \in 1..Len(goal_ids) |->
            IF competency_ids # <<>>
            THEN [j \in 1..Len(competency_ids) |->
                     MappingRow(entry_timestamp, entry_date, goal_ids[i], competency_ids[j])]
            ELSE <<MappingRow(entry_timestamp, entry_date, goal_ids[i], "")>>])
    ELSE [j \in 1..Len(competency_ids) |->
             MappingRow(entry_timestamp, entry_date, "", competency_ids[j])]

\* The handling of one update: storage (a client is configured), allowed
\* (bot_data["allowed_user_ids"]), user and gate (the update's user id and the
\* outcome of authorize_user), lines (the goal lines of a listing reply).
IdleLog ==
    [pc |-> "idle", storage |-> TRUE, command |-> "", text |-> "", record |-> EmptyRec,
     existing |-> EmptyRec, worker |-> "", pending |-> <<>>, outstanding |-> 0, reply |-> "",
     handled |-> 0, lines |-> <<>>, allowed |-> {}, user |-> None, gate |-> ""]

LogThreads == {t \in Threads : thr[t].owner = "log"}

\* The update arrives: the checks before storage, then
\* await storage_client.append_entry_async(record) on worker t
LogReceive(t, text, entry_type) ==
    /\ log.pc \in {"idle", "finished"}
    /\ log.handled < MaxLogs
    /\ log.pending = <<>> /\ LogThreads = {}
    /\ ops' = ops
    /\ LET base == [IdleLog EXCEPT !.storage = log.storage, !.allowed = log.allowed,
                                   !.handled = log.handled + 1,
                                   !.text = text, !.pc = "finished"]
       IN  IF text = ""
           THEN /\ log' = [base EXCEPT !.reply = "no_text"]
                /\ UNCHANGED <<app, max_retries, service, initialized, titles, header, data,
                               thr, rt>>
           ELSE IF TextLen(text) > MAX_ENTRY_LENGTH
           THEN /\ log' = [base EXCEPT !.reply = "too_long"]
                /\ UNCHANGED <<app, max_retries, service, initialized, titles, header, data,
                               thr, rt>>
           ELSE IF ~log.storage
           THEN /\ log' = [base EXCEPT !.reply = "no_storage"]
                /\ UNCHANGED <<app, max_retries, service, initialized, titles, header, data,
                               thr, rt>>
           ELSE /\ log' = [base EXCEPT !.pc = "entry", !.worker = t,
                                       !.record = normalize_entry(text, entry_type)]
                /\ append_entry(t, normalize_entry(text, entry_type), "log")

\* A handler that goes on to the mappings whether or not the entry was saved.
LogEntryDone_ignores_failure(t) ==
    /\ log.pc = "entry" /\ log.worker = t
    /\ thr[t].pc = "done"
    /\ thr' = [thr EXCEPT ![t] = IdleThread]
    /\ LET mappings == build_goal_competency_mappings(
                           log.record["timestamp"], log.record["date"],
                           extract_goal_ids(log.text), extract_competency_tags(log.text))
       IN  log' = IF mappings = <<>>
                  THEN [log EXCEPT !.pc = "finished", !.reply = "confirmation", !.worker = ""]
                  ELSE [log EXCEPT !.pc = "gather", !.worker = "", !.pending = mappings,
                                   !.outstanding = Len(mappings)]
    /\ UNCHANGED <<app, max_retries, service, initialized, titles, header, data, ops, rt>>

\* append_entry_async completes: the failure reply, or the mappings handed to
\* asyncio.gather, or the confirmation when there is none
LogEntryDone(t) ==
    /\ log.pc = "entry" /\ log.worker = t
    /\ thr[t].pc = "done"
    /\ thr' = [thr EXCEPT ![t] = IdleThread]
    /\ LET mappings == build_goal_competency_mappings(
                           log.record["timestamp"], log.record["date"],
                           extract_goal_ids(log.text), extract_competency_tags(log.text))
       IN  log' = IF thr[t].result.kind = "error"
                  THEN [log EXCEPT !.pc = "finished", !.reply = "save_failed", !.worker = ""]
                  ELSE IF mappings = <<>>
                  THEN [log EXCEPT !.pc = "finished", !.reply = "confirmation", !.worker = ""]
                  ELSE [log EXCEPT !.pc = "gather", !.worker = "", !.pending = mappings,
                                   !.outstanding = Len(mappings)]
    /\ UNCHANGED <<app, max_retries, service, initialized, titles, header, data, ops, rt>>

\* asyncio.to_thread(storage_client.append_goal_mapping, mapping) starts on a
\* free worker
LogSubmitMapping(t) ==
    /\ log.pending # <<>>
    /\ append_goal_mapping(t, Head(log.pending), "log")
    /\ log' = [log EXCEPT !.pending = Tail(log.pending)]
    /\ ops' = ops

\* One mapping append ends.  gather returns when all have ended and raises at
\* the first that fails; the handler swallows that and sends the confirmation.
LogMappingDone(t) ==
    /\ thr[t].owner = "log" /\ thr[t].op = "append_goal_mapping"
    /\ thr[t].pc = "done"
    /\ thr' = [thr EXCEPT ![t] = IdleThread]
    /\ log' = IF log.pc = "gather" /\ (thr[t].result.kind = "error" \/ log.outstanding = 1)
              THEN [log EXCEPT !.pc = "finished", !.reply = "confirmation",
                               !.outstanding = log.outstanding - 1]
              ELSE [log EXCEPT !.outstanding = log.outstanding - 1]
    /\ UNCHANGED <<app, max_retries, service, initialized, titles, header, data, ops, rt>>

(***************************************************************************)
(* The goal commands of the bot: /goal_status, /goal_edit, /goal_archive,  *)
(* /goal_supersede, /goal_milestone_add and /goal_milestone_done.          *)
(***************************************************************************)
\* The texts a user sends after each command name.
GoalStatusTexts ==
    {"", "GOAL-1", "GOAL-1 Completed Shipped", "GOAL-1 Blocked", "GOAL-9 Completed",
     "GOAL-1 Finished"}
GoalEditTexts ==
    {"", "GOAL-1 | owner=frank", "GOAL-1 | status=Blocked | notes=waiting", "GOAL-9 | owner=frank"}
GoalArchiveTexts == {"", "GOAL-1", "GOAL-1 Deprecated", "GOAL-9 Deprecated"}
GoalSupersedeTexts == {"GOAL-1", "GOAL-1 GOAL-2", "GOAL-1 GOAL-2 migrated", "GOAL-9 GOAL-2"}
GoalMilestoneTexts ==
    {"", "GOAL-1", "GOAL-1 | Kickoff", "GOAL-1 | Kickoff | target=2024-12-31",
     "GOAL-1 Kickoff | completion=2024-06-01", "GOAL-1 | milestone=Kickoff",
     "GOAL-1 | Kickoff | status=Bogus"}

\* A parser that raised ValueError.
ParseError == Fld("error", "ValueError")

\* parse_goal_status_change(text, GOAL_STATUSES)
parse_goal_status_change(text) ==
    CASE text = "" -> EmptyRec
      [] text = "GOAL-1" -> [goalid |-> "GOAL-1", status |-> "", notes |-> ""]
      [] text = "GOAL-1 Completed Shipped" ->
            [goalid |-> "GOAL-1", status |-> "Completed", notes |-> "Shipped"]
      [] text = "GOAL-1 Blocked" -> [goalid |-> "GOAL-1", status |-> "Blocked", notes |-> ""]
      [] text = "GOAL-9 Completed" -> [goalid |-> "GOAL-9", status |-> "Completed", notes |-> ""]
      [] text = "GOAL-1 Finished" -> ParseError

EditFields(goal_id, status, owner, notes) ==
    [goalid |-> goal_id, title |-> "", status |-> status, targetdate |-> "", owner |-> owner,
     notes |-> notes, lifecyclestatus |-> "", supersededby |-> "", archived |-> ""]
\* parse_goal_edit(text, GOAL_STATUSES)
parse_goal_edit(text) ==
    CASE text = "" -> EmptyRec
      [] text = "GOAL-1 | owner=frank" -> EditFields("GOAL-1", "", "frank", "")
      [] text = "GOAL-1 | status=Blocked | notes=waiting" ->
            EditFields("GOAL-1", "Blocked", "", "waiting")
      [] text = "GOAL-9 | owner=frank" -> EditFields("GOAL-9", "", "frank", "")

MilestoneFields(goal_id, title, target, completion) ==
    [goalid |-> goal_id, title |-> title, targetdate |-> target, completiondate |-> completion,
     status |-> "Not Started", notes |-> ""]
\* parse_goal_milestone(text, GOAL_MILESTONE_STATUSES): the milestone's name
\* is returned under the key "title"
parse_goal_milestone(text) ==
    CASE text = "" -> EmptyRec
      [] text = "GOAL-1" -> MilestoneFields("GOAL-1", "", "", "")
      [] text = "GOAL-1 | Kickoff" -> MilestoneFields("GOAL-1", "Kickoff", "", "")
      [] text = "GOAL-1 | Kickoff | target=2024-12-31" ->
            MilestoneFields("GOAL-1", "Kickoff", "2024-12-31", "")
      [] text = "GOAL-1 Kickoff | completion=2024-06-01" ->
            MilestoneFields("GOAL-1", "Kickoff", "", "2024-06-01")
      [] text = "GOAL-1 | milestone=Kickoff" -> MilestoneFields("GOAL-1", "Kickoff", "", "")
      [] text = "GOAL-1 | Kickoff | status=Bogus" -> ParseError

\* message_text.split(maxsplit=2)
SplitTokens(text) ==
    CASE text = "" -> <<>>
      [] text = "GOAL-1" -> <<"GOAL-1">>
      [] text = "GOAL-1 Deprecated" -> <<"GOAL-1", "Deprecated">>
      [] text = "GOAL-9 Deprecated" -> <<"GOAL-9", "Deprecated">>
      [] text = "GOAL-1 GOAL-2" -> <<"GOAL-1", "GOAL-2">>
      [] text = "GOAL-1 GOAL-2 migrated" -> <<"GOAL-1", "GOAL-2", "migrated">>
      [] text = "GOAL-9 GOAL-2" -> <<"GOAL-9", "GOAL-2">>
Token(text, i) == IF i <= Len(SplitTokens(text)) THEN SplitTokens(text)[i] ELSE ""

\* {**a, **b}
Merged(a, b) == b @@ a
\* {k: v for k, v in parsed.items() if v}
TruthyItems(r) == [k \in {k \in DOMAIN r : Truthy(r[k])} |-> r[k]]

GoalCommands == {"goal_status", "goal_edit", "goal_archive", "goal_supersede"}
MilestoneCommands == {"goal_milestone_add", "goal_milestone_done"}

\* The goal id a goal command looks up.
CommandGoalId(command, text) ==
    CASE command = "goal_status" -> Get(parse_goal_status_change(text), "goalid")
      [] command = "goal_edit" -> Get(parse_goal_edit(text), "goalid")
      [] OTHER -> Token(text, 1)

\* next((goal for goal in goals if goal.get("goalid") == goal_id), None)
FindExisting(goals, goal_id) ==
    LET matches == {i \in 1..Len(goals) : goals[i]["goalid"] = goal_id}
    IN  IF matches = {} THEN EmptyRec
        ELSE goals[CHOOSE i \in matches : \A j \in matches : i <= j]

\* The record each goal command hands to append_goal.
UpdatedGoal(command, text, existing) ==
    CASE command = "goal_status" ->
            LET parsed == parse_goal_status_change(text)
            IN  [goalid |-> parsed["goalid"],
                 title |-> GetD(existing, "title", ""),
                 status |-> parsed["status"],
                 targetdate |-> GetD(existing, "targetdate", ""),
                 owner |-> GetD(existing, "owner", ""),
                 notes |-> Or(Get(parsed, "notes"), GetD(existing, "notes", ""))]
      [] command = "goal_edit" ->
            LET parsed == parse_goal_edit(text)
            IN  Merged(Merged(Merged(existing, TruthyItems(parsed)),
                              [goalid |-> parsed["goalid"],
                               lastmodified |-> NowIso,
                               lifecyclestatus |-> Or(Get(parsed, "lifecyclestatus"), "Updated")]),
                       Fld("history", "Edited via bot"))
      [] command = "goal_archive" ->
            Merged(existing,
                   [lifecyclestatus |-> "Archived", archived |-> "TRUE",
                    notes |-> Or(Token(text, 2), GetD(existing, "notes", "")),
                    lastmodified |-> NowIso, history |-> "Archived via bot"])
      [] command = "goal_supersede" ->
            Merged(existing,
                   [lifecyclestatus |-> "Superseded", supersededby |-> Token(text, 2),
                    lastmodified |-> NowIso, history |-> Or(Token(text, 3), "Superseded")])

\* A handler up to its first request to storage: the reply `early` that ends
\* it, the reply when there is no storage client, or get_goals on worker t.
BeginGoalCommand(t, command, text, early) ==
    /\ log.pc \in {"idle", "finished"}
    /\ log.handled < MaxLogs
    /\ log.pending = <<>> /\ LogThreads = {}
    /\ ops' = ops
    /\ LET base == [IdleLog EXCEPT !.storage = log.storage, !.allowed = log.allowed,
                                   !.handled = log.handled + 1,
                                   !.command = command, !.text = text, !.pc = "finished"]
       IN  IF early # ""
           THEN /\ log' = [base EXCEPT !.reply = early]
                /\ UNCHANGED <<app, max_retries, service, initialized, titles, header, data,
                               thr, rt>>
           ELSE IF ~log.storage
           THEN /\ log' = [base EXCEPT !.reply = "no_storage"]
                /\ UNCHANGED <<app, max_retries, service, initialized, titles, header, data,
                               thr, rt>>
           ELSE /\ log' = [base EXCEPT !.pc = "get_goals", !.worker = t]
                /\ get_goals(t, "log")

update_goal_status(t, text) ==
    LET parsed == parse_goal_status_change(text)
    IN  BeginGoalCommand(t, "goal_status", text,
            IF parsed = ParseError THEN "parse_error"
            ELSE IF ~Truthy(Get(parsed, "goalid")) \/ ~Truthy(Get(parsed, "status")) THEN "usage"
            ELSE "")

edit_goal(t, text) ==
    BeginGoalCommand(t, "goal_edit", text,
        IF ~Truthy(Get(parse_goal_edit(text), "goalid")) THEN "usage" ELSE "")

archive_goal(t, text) ==
    BeginGoalCommand(t, "goal_archive", text, IF Token(text, 1) = "" THEN "usage" ELSE "")

supersede_goal(t, text) ==
    BeginGoalCommand(t, "goal_supersede", text,
        IF Len(SplitTokens(text)) < 2 THEN "usage" ELSE "")

\* get_goals has ended: the failure reply, the not-found reply, or the updated
\* record handed to asyncio.to_thread(storage_client.append_goal, ...)
GoalsLoaded(t) ==
    /\ log.pc = "get_goals" /\ log.worker = t
    /\ thr[t].pc = "done"
    /\ thr' = [thr EXCEPT ![t] = IdleThread]
    /\ LET existing == FindExisting(thr[t].result.val, CommandGoalId(log.command, log.text))
       IN  log' = IF thr[t].result.kind = "error"
                  THEN [log EXCEPT !.pc = "finished", !.reply = "load_failed", !.worker = ""]
                  ELSE IF existing = EmptyRec
                  THEN [log EXCEPT !.pc = "finished", !.reply = "not_found", !.worker = ""]
                  ELSE [log EXCEPT !.pc = "append", !.worker = "", !.existing = existing,
                                   !.record = UpdatedGoal(log.command, log.text, existing),
                                   !.pending = <<UpdatedGoal(log.command, log.text, existing)>>]
    /\ UNCHANGED <<app, max_retries, service, initialized, titles, header, data, ops, rt>>

\* A milestone handler up to asyncio.to_thread(append_goal_milestone, ...)
BeginMilestoneCommand(command, text, milestone) ==
    /\ log.pc \in {"idle", "finished"}
    /\ log.handled < MaxLogs
    /\ log.pending = <<>> /\ LogThreads = {}
    /\ LET parsed == parse_goal_milestone(text)
           base == [IdleLog EXCEPT !.storage = log.storage, !.allowed = log.allowed,
                                   !.handled = log.handled + 1,
                                   !.command = command, !.text = text, !.pc = "finished"]
       IN  log' = IF parsed = ParseError
                  THEN [base EXCEPT !.reply = "parse_error"]
                  ELSE IF ~Truthy(Get(parsed, "goalid")) \/ ~Truthy(Get(parsed, "milestone"))
                  THEN [base EXCEPT !.reply = "usage"]
                  ELSE IF ~log.storage
                  THEN [base EXCEPT !.reply = "no_storage"]
                  ELSE [base EXCEPT !.pc = "append", !.record = milestone,
                                    !.pending = <<milestone>>]
    /\ UNCHANGED <<app, max_retries, service, initialized, titles, header, data, thr, ops, rt>>

add_goal_milestone(text) ==
    BeginMilestoneCommand("goal_milestone_add", text, parse_goal_milestone(text))

complete_goal_milestone(text) ==
    LET parsed == parse_goal_milestone(text)
    IN  BeginMilestoneCommand("goal_milestone_done", text,
            Merged(parsed, [status |-> "Completed",
                            completiondate |-> Or(Get(parsed, "completiondate"), TodayIso)]))

\* The append handed to asyncio.to_thread starts on a free worker.
GoalSubmitAppend(t) ==
    /\ log.pc = "append" /\ log.pending # <<>>
    /\ IF log.command \in MilestoneCommands
       THEN append_goal_milestone(t, Head(log.pending), "log")
       ELSE append_goal(t, Head(log.pending), "log")
    /\ log' = [log EXCEPT !.pending = Tail(log.pending), !.worker = t]
    /\ ops' = ops

\* The append has ended: the failure reply or the confirmation.
GoalAppendDone(t) ==
    /\ log.pc = "append" /\ log.worker = t
    /\ thr[t].pc = "done"
    /\ thr' = [thr EXCEPT ![t] = IdleThread]
    /\ log' = [log EXCEPT !.pc = "finished", !.worker = "",
                          !.reply = IF thr[t].result.kind = "error" THEN "save_failed" ELSE "saved"]
    /\ UNCHANGED <<app, max_retries, service, initialized, titles, header, data, ops, rt>>

(***************************************************************************)
(* The listing commands: /goal_list (list_goals) and /goals_summary        *)
(* (goals_summary), with the milestone rollup shown on each goal line.     *)
(***************************************************************************)
\* str(n) of a small count
Str(n) ==
    CASE n = 0 -> "0" [] n = 1 -> "1" [] n = 2 -> "2" [] n = 3 -> "3" [] n = 4 -> "4"
      [] n = 5 -> "5" [] n = 6 -> "6" [] n = 7 -> "7" [] n = 8 -> "8" [] n = 9 -> "9"

\* a < b on strings
StrLess(a, b) == a # b /\ StrLeq(Chars(a), Chars(b))

\* sorted(dates)[-1]
SortedLast(dates) ==
    CHOOSE d \in {dates[i] : i \in 1..Len(dates)} :
        \A i \in 1..Len(dates) : StrLeq(Chars(dates[i]), Chars(d))

\* f"{completed}/{total} done" and, with a completion date, f" (latest {...})":
\* the string as the sequence of its pieces.
FormatRollup(counts) ==
    <<Str(counts.done), "/", Str(counts.total), " done">>
        \o (IF counts.completed_dates # <<>>
            THEN <<" (latest ", SortedLast(counts.completed_dates), ")">>
            ELSE <<>>)

\* A rollup that counts every milestone that has been started as done.
_load_milestone_rollups_counts_started(milestones) ==
    LET rollups[i \in 0..Len(milestones)] ==
            IF i = 0 THEN [g \in {} |-> [total |-> 0, done |-> 0, completed_dates |-> <<>>]]
            ELSE LET milestone == milestones[i]
                     goal_id == GetD(milestone, "goalid", "")
                     before == rollups[i - 1]
                     counts == IF goal_id \in DOMAIN before THEN before[goal_id]
                               ELSE [total |-> 0, done |-> 0, completed_dates |-> <<>>]
                     completed == Get(milestone, "status") # "Not Started"
                     updated ==
                         [total |-> counts.total + 1,
                          done |-> IF completed THEN counts.done + 1 ELSE counts.done,
                          completed_dates |->
                              IF completed /\ Truthy(Get(milestone, "completiondate"))
                              THEN Append(counts.completed_dates, milestone["completiondate"])
                              ELSE counts.completed_dates]
                 IN  IF ~Truthy(goal_id) THEN before
                     ELSE [g \in DOMAIN before \cup {goal_id} |->
                              IF g = goal_id THEN updated ELSE before[g]]
        final == rollups[Len(milestones)]
    IN  [g \in DOMAIN final |-> FormatRollup(final[g])]

\* _load_milestone_rollups after get_goal_milestones returned `milestones`:
\* the loop over the rows, then the formatted string of every goal id.
_load_milestone_rollups(milestones) ==
    LET rollups[i \in 0..Len(milestones)] ==
            IF i = 0 THEN [g \in {} |-> [total |-> 0, done |-> 0, completed_dates |-> <<>>]]
            ELSE LET milestone == milestones[i]
                     goal_id == GetD(milestone, "goalid", "")
                     before == rollups[i - 1]
                     counts == IF goal_id \in DOMAIN before THEN before[goal_id]
                               ELSE [total |-> 0, done |-> 0, completed_dates |-> <<>>]
                     completed == Get(milestone, "status") = "Completed"
                     updated ==
                         [total |-> counts.total + 1,
                          done |-> IF completed THEN counts.done + 1 ELSE counts.done,
                          completed_dates |->
                              IF completed /\ Truthy(Get(milestone, "completiondate"))
                              THEN Append(counts.completed_dates, milestone["completiondate"])
                              ELSE counts.completed_dates]
                 IN  IF ~Truthy(goal_id) THEN before
                     ELSE [g \in DOMAIN before \cup {goal_id} |->
                              IF g = goal_id THEN updated ELSE before[g]]
        final == rollups[Len(milestones)]
    IN  [g \in DOMAIN final |-> FormatRollup(final[g])]

\* rollups.get(goal_id, "") after the read ended with `result`; the except
\* branch of _load_milestone_rollups returns {}.
_format_milestone_rollup(goal_id, result) ==
    IF result.kind = "error" THEN <<>>
    ELSE LET rollups == _load_milestone_rollups(result.val)
         IN  IF goal_id \in DOMAIN rollups THEN rollups[goal_id] ELSE <<>>

RECURSIVE SortedByTargetDate(_)
\* upcoming.sort(key=lambda g: g.get("targetdate")): a stable sort
SortedByTargetDate(goals) ==
    IF goals = <<>> THEN <<>>
    ELSE LET rest == SortedByTargetDate(Tail(goals))
             goal == Head(goals)
             k == Cardinality({i \in 1..Len(rest) :
                                  StrLess(rest[i]["targetdate"], goal["targetdate"])})
         IN  SubSeq(rest, 1, k) \o <<goal>> \o SubSeq(rest, k + 1, Len(rest))

\* [goal for goal in goals if goal.get("targetdate")], sorted
Upcoming(goals) ==
    LET HasTarget(goal) == Truthy(Get(goal, "targetdate"))
    IN  SortedByTargetDate(SelectSeq(goals, HasTarget))

ListCommands == {"goal_list", "goals_summary"}

\* A listing handler up to await asyncio.to_thread(storage_client.get_goals)
BeginListCommand(t, command) ==
    /\ log.pc \in {"idle", "finished"}
    /\ log.handled < MaxLogs
    /\ log.pending = <<>> /\ LogThreads = {}
    /\ ops' = ops
    /\ LET base == [IdleLog EXCEPT !.storage = log.storage, !.allowed = log.allowed,
                                   !.handled = log.handled + 1,
                                   !.command = command, !.pc = "finished"]
       IN  IF ~log.storage
           THEN /\ log' = [base EXCEPT !.reply = "no_storage"]
                /\ UNCHANGED <<app, max_retries, service, initialized, titles, header, data,
                               thr, rt>>
           ELSE /\ log' = [base EXCEPT !.pc = "load_goals", !.worker = t]
                /\ get_goals(t, "log")

list_goals(t) == BeginListCommand(t, "goal_list")

goals_summary(t) == BeginListCommand(t, "goals_summary")

\* get_goals has ended: the failure reply, the reply for no goals, or the
\* goal lines to build: every goal for /goal_list, the goals with a target
\* date in date order for /goals_summary.
GoalsListed(t) ==
    /\ log.pc = "load_goals" /\ log.worker = t
    /\ thr[t].pc = "done"
    /\ thr' = [thr EXCEPT ![t] = IdleThread]
    /\ log' = IF thr[t].result.kind = "error"
              THEN [log EXCEPT !.pc = "finished", !.reply = "load_failed", !.worker = ""]
              ELSE IF thr[t].result.val = <<>>
              THEN [log EXCEPT !.pc = "finished", !.reply = "no_goals", !.worker = ""]
              ELSE [log EXCEPT !.pc = "rollup", !.worker = "",
                               !.pending = IF log.command = "goal_list" THEN thr[t].result.val
                                           ELSE Upcoming(thr[t].result.val)]
    /\ UNCHANGED <<app, max_retries, service, initialized, titles, header, data, ops, rt>>

\* milestones = storage_client.get_goal_milestones() inside
\* _load_milestone_rollups: a plain call, made by the thread that runs the
\* handler (the event loop), once per goal line of /goal_list and once for
\* /goals_summary.
RollupRead(t) ==
    /\ log.pc = "rollup" /\ log.worker = ""
    /\ get_goal_milestones(t, "loop")
    /\ log' = [log EXCEPT !.worker = t]
    /\ ops' = ops

\* The read has ended: the rollup of the next goal line of /goal_list, or of
\* every line of /goals_summary, then the reply when no line is left.
RollupLoaded(t) ==
    /\ log.pc = "rollup" /\ log.worker = t
    /\ thr[t].pc = "done"
    /\ thr' = [thr EXCEPT ![t] = IdleThread]
    /\ LET Line(goal) == [goalid |-> GetD(goal, "goalid", ""),
                          rollup |-> _format_milestone_rollup(GetD(goal, "goalid", ""),
                                                              thr[t].result)]
       IN  log' = IF log.command = "goal_list"
                  THEN IF Len(log.pending) = 1
                       THEN [log EXCEPT !.pc = "finished", !.reply = "goal_list", !.worker = "",
                                        !.pending = <<>>,
                                        !.lines = Append(log.lines, Line(Head(log.pending)))]
                       ELSE [log EXCEPT !.worker = "", !.pending = Tail(log.pending),
                                        !.lines = Append(log.lines, Line(Head(log.pending)))]
                  ELSE [log EXCEPT !.pc = "finished", !.reply = "goals_summary", !.worker = "",
                                   !.pending = <<>>,
                                   !.lines = [i \in 1..Len(log.pending) |-> Line(log.pending[i])]]
    /\ UNCHANGED <<app, max_retries, service, initialized, titles, header, data, ops, rt>>

(***************************************************************************)
(* handlers.py: the authorization gate.  register_handlers adds            *)
(* MessageHandler(filters.ALL, authorize_user) in group -1, so it runs on  *)
(* every update that carries a message, before the command handlers of     *)
(* group 0; ApplicationHandlerStop ends the processing of the update.      *)
(***************************************************************************)
\* The user ids of the model; None is an update without an effective user.
UserIds == {"1001", "1002", "1003", None}
AllowLists == {{}, {"1001"}, {"1001", "1002"}}

\* A gate that answers an unlisted user and lets the update through.
authorize_user_replies_without_stopping(user) ==
    /\ log.pc \in {"idle", "finished"} /\ log.gate # "passed"
    /\ log.handled < MaxLogs
    /\ log.pending = <<>> /\ LogThreads = {}
    /\ LET base == [IdleLog EXCEPT !.storage = log.storage, !.allowed = log.allowed,
                                   !.handled = log.handled, !.user = user]
       IN  log' = IF log.allowed = {}
                  THEN [base EXCEPT !.gate = "passed"]
                  ELSE IF user \notin log.allowed
                  THEN [base EXCEPT !.gate = "passed", !.reply = "Access denied"]
                  ELSE [base EXCEPT !.gate = "passed"]
    /\ UNCHANGED <<app, max_retries, service, initialized, titles, header, data, thr, ops, rt>>

\* authorize_user on an update from `user`: return when the allow-list is
\* empty or holds the user id; else reply "Access denied" and raise
\* ApplicationHandlerStop.
authorize_user(user) ==
    /\ log.pc \in {"idle", "finished"} /\ log.gate # "passed"
    /\ log.handled < MaxLogs
    /\ log.pending = <<>> /\ LogThreads = {}
    /\ LET base == [IdleLog EXCEPT !.storage = log.storage, !.allowed = log.allowed,
                                   !.handled = log.handled, !.user = user]
       IN  log' = IF log.allowed = {}
                  THEN [base EXCEPT !.gate = "passed"]
                  ELSE IF user \notin log.allowed
                  THEN [base EXCEPT !.gate = "denied", !.reply = "Access denied",
                                    !.pc = "finished"]
                  ELSE [base EXCEPT !.gate = "passed"]
    /\ UNCHANGED <<app, max_retries, service, initialized, titles, header, data, thr, ops, rt>>

\* The update went through group -1: the application hands it to the
\* handlers of group 0.
GatePassed == log.gate = "passed"

(***************************************************************************)
(* config.py: load_config over the environment variables.                  *)
(***************************************************************************)
\* The values the environment may hold for each variable; None is unset.
EnvValues ==
    [TELEGRAM_BOT_TOKEN : {None, "token"},
     SPREADSHEET_ID : {None, "sheet-id"},
     TELEGRAM_ALLOWED_USERS : {None, "1001, 1002", "1001,abc"},
     SERVICE_ACCOUNT_FILE : {None, "", "creds.json"},
     SERVICE_ACCOUNT_JSON : {None, "", "{\"client_email\": \"bot\"}", "[1]", "{broken"},
     REMINDERS_ENABLED : {None, "false"},
     REMINDER_CHAT_ID : {None, "42", "home"}]

\* json.loads(value): the kind of value it yields, or that it raises.
JsonLoads(value) ==
    CASE value = "{\"client_email\": \"bot\"}" -> "dict"
      [] value = "[1]" -> "list"
      [] OTHER -> "JSONDecodeError"

\* int(item) for each item of value.split(","), or that one of them raises.
_parse_int_list(value) ==
    CASE ~Truthy(value) -> [error |-> NoError, value |-> <<>>]
      [] value = "1001, 1002" -> [error |-> NoError, value |-> <<"1001", "1002">>]
      [] OTHER -> [error |-> "TELEGRAM_ALLOWED_USERS must contain only integers",
                   value |-> <<>>]

\* _parse_int(os.getenv("REMINDER_CHAT_ID"))
_parse_int(value) ==
    CASE value = None -> [error |-> NoError, value |-> None]
      [] value = "42" -> [error |-> NoError, value |-> "42"]
      [] OTHER -> [error |-> "REMINDER_CHAT_ID must be an integer", value |-> None]

\* _validate_json_payload(value)
_validate_json_payload(value) ==
    IF ~Truthy(value) THEN NoError
    ELSE IF JsonLoads(value) = "JSONDecodeError"
    THEN "SERVICE_ACCOUNT_JSON must be valid JSON if provided"
    ELSE IF JsonLoads(value) # "dict"
    THEN "SERVICE_ACCOUNT_JSON must represent a JSON object"
    ELSE NoError

\* _require(var_name)
_require(env, var_name) ==
    IF ~Truthy(env[var_name]) THEN "required to start the bot" ELSE NoError

\* load_config with the rest of the environment at its defaults: the
\* ValueError it raises ("" for none) and the Config it returns.
load_config_result(env) ==
    LET reminders_enabled ==
            (IF env.REMINDERS_ENABLED = None THEN "true" ELSE env.REMINDERS_ENABLED)
                \notin {"false", "0", "no"}
        error == First(<<
            _require(env, "TELEGRAM_BOT_TOKEN"),
            _require(env, "SPREADSHEET_ID"),
            _parse_int_list(env.TELEGRAM_ALLOWED_USERS).error,
            IF ~(Truthy(env.SERVICE_ACCOUNT_FILE) \/ Truthy(env.SERVICE_ACCOUNT_JSON))
            THEN "Provide SERVICE_ACCOUNT_FILE or SERVICE_ACCOUNT_JSON" ELSE NoError,
            _validate_json_payload(env.SERVICE_ACCOUNT_JSON),
            _parse_int(env.REMINDER_CHAT_ID).error,
            IF reminders_enabled /\ _parse_int(env.REMINDER_CHAT_ID).value = None
            THEN "REMINDER_CHAT_ID is required when REMINDERS_ENABLED is true"
            ELSE NoError>>)
    IN  [error |-> error,
         config |-> IF error # NoError THEN EmptyRec
                    ELSE [telegram_bot_token |-> env.TELEGRAM_BOT_TOKEN,
                          spreadsheet_id |-> env.SPREADSHEET_ID,
                          telegram_allowed_users |->
                              _parse_int_list(env.TELEGRAM_ALLOWED_USERS).value,
                          service_account_file |-> env.SERVICE_ACCOUNT_FILE,
                          service_account_json |-> env.SERVICE_ACCOUNT_JSON,
                          reminder_chat_id |-> _parse_int(env.REMINDER_CHAT_ID).value]]

\* config = load_config() at startup
load_config ==
    /\ app.pc = "idle"
    /\ app' = [app EXCEPT !.pc = IF load_config_result(app.env).error = NoError
                                 THEN "loaded" ELSE "config_error",
                          !.config = load_config_result(app.env).config,
                          !.error = load_config_result(app.env).error]
    /\ UNCHANGED <<max_retries, service, initialized, titles, header, data, thr, ops, rt, log>>

\* The process state outside the handlers, before any of it is used: env (the
\* environment variables), config and error (what load_config returned or
\* raised).
IdleApp ==
    [pc |-> "idle", env |-> EmptyRec, config |-> EmptyRec, error |-> "",
     \* the summarizer: its settings, the entries of the call, the provider
     \* calls of the call and what the last one gave, the summary returned,
     \* and the calls ended so far
     enabled |-> FALSE, ai_client |-> FALSE, entries |-> <<>>, calls |-> 0,
     provided |-> [kind |-> "", chars |-> <<>>],
     summary |-> [from |-> "", text |-> <<>>], summaries |-> 0,
     \* the weekly focus reminder: the lines of its two sections
     goals |-> <<>>, milestones |-> <<>>, mappings |-> <<>>,
     upcoming_lines |-> <<>>, stale_lines |-> <<>>,
     \* the summary command: the sheets whose read failed, the competencies
     \* loaded, the entries sent and the reply
     failed |-> {}, competencies |-> <<>>, enriched |-> <<>>, reply |-> ""]

(***************************************************************************)
(* ai_summarizer.py: the summarizer returned by create_ai_summarizer.      *)
(***************************************************************************)
\* What caller(prompt, ai_client) gives once awaited: a string (as its
\* characters), a value that is no string, or an exception.
ProviderResults ==
    {[kind |-> "str", chars |-> <<>>],
     [kind |-> "str", chars |-> <<" ", " ">>],
     [kind |-> "str", chars |-> <<"o", "k">>],
     [kind |-> "str", chars |-> <<"o", "k", " ">>],
     [kind |-> "str", chars |-> <<" ", "o", "k", " ", "!", " ">>],
     [kind |-> "None", chars |-> <<>>],
     [kind |-> "int", chars |-> <<>>],
     [kind |-> "raise", chars |-> <<>>]}

\* The entry lists handed to the summarizer.
SummaryEntries ==
    {<<>>,
     <<[date |-> "2024-06-01", type |-> "task", text |-> "Draft plan", tags |-> ""]>>,
     <<[date |-> "2024-06-03", type |-> "idea", text |-> "Try", tags |-> "#research"],
       [date |-> "2024-06-01", type |-> "task", text |-> "Draft plan", tags |-> ""]>>}

\* fallback_formatter(entries, start_date, end_date), the default
\* _format_summary: the no-entries sentence, or the heading and one line per
\* entry in the order given.
_format_summary(entries) ==
    IF entries = <<>> THEN <<"No entries found for the last days.">>
    ELSE <<"Entries from to:">> \o [i \in 1..Len(entries) |-> entries[i].text]

\* _summarize is called: the fallback at once when the summarizer is
\* disabled or has no client, else the prompt is built and the provider
\* called.
_summarize(entries) ==
    /\ app.pc \in {"idle", "summarized"}
    /\ app.summaries < MaxSummaries
    /\ LET call == [app EXCEPT !.entries = entries, !.calls = 0,
                               !.provided = IdleApp.provided, !.summary = IdleApp.summary]
       IN  app' = IF ~app.enabled \/ ~app.ai_client
                  THEN [call EXCEPT !.pc = "summarized", !.summaries = app.summaries + 1,
                                    !.summary = [from |-> "fallback",
                                                 text |-> _format_summary(entries)]]
                  ELSE [call EXCEPT !.pc = "provider", !.calls = 1]
    /\ UNCHANGED <<max_retries, service, initialized, titles, header, data, thr, ops, rt, log>>

\* A summarizer that returns whatever string the provider gave.
ProviderEnds_accepts_blank(result) ==
    /\ app.pc = "provider"
    /\ app' = [app EXCEPT
                  !.pc = "summarized", !.summaries = app.summaries + 1,
                  !.provided = result,
                  !.summary = IF result.kind = "str"
                              THEN [from |-> "provider", text |-> result.chars]
                              ELSE [from |-> "fallback",
                                    text |-> _format_summary(app.entries)]]
    /\ UNCHANGED <<max_retries, service, initialized, titles, header, data, thr, ops, rt, log>>

\* The provider call ends: a string that is not blank is returned stripped;
\* any other value, and an exception, lead to the fallback.
ProviderEnds(result) ==
    /\ app.pc = "provider"
    /\ app' = [app EXCEPT
                  !.pc = "summarized", !.summaries = app.summaries + 1,
                  !.provided = result,
                  !.summary = IF result.kind = "str" /\ StripChars(result.chars) # <<>>
                              THEN [from |-> "provider", text |-> StripChars(result.chars)]
                              ELSE [from |-> "fallback",
                                    text |-> _format_summary(app.entries)]]
    /\ UNCHANGED <<max_retries, service, initialized, titles, header, data, thr, ops, rt, log>>

(***************************************************************************)
(* scheduler.py: the weekly focus reminder.                                *)
(***************************************************************************)
\* datetime.now(ZoneInfo(timezone)).date() of the run
FocusToday == "2024-06-03"
\* today + timedelta(days)
PlusDays(today, days) ==
    CASE today = "2024-06-03" /\ days = 14 -> "2024-06-17"
      [] today = "2024-06-03" /\ days = -1 -> "2024-06-02"
      [] today = "2024-06-03" /\ days = -14 -> "2024-05-20"

\* _parse_date: datetime.fromisoformat(value).date(), None for an empty value
\* and for a value fromisoformat rejects
_parse_date(value) ==
    IF ~Truthy(value) THEN None
    ELSE IF Len(Chars(value)) = 10 /\ StrptimeOk(Chars(value)) THEN value
    ELSE None

\* value.strip().lower() on the cells of the LifecycleStatus and Archived
\* columns
StripLower(value) ==
    CASE value = "Active" -> "active" [] value = "Archived" -> "archived"
      [] value = "Updated" -> "updated" [] value = "Superseded" -> "superseded"
      [] value = "TRUE" -> "true" [] value = " Yes " -> "yes"
      [] OTHER -> value

_goal_is_active(goal) ==
    LET status == Or(Get(goal, "status"), "")
        lifecycle == StripLower(Or(Get(goal, "lifecyclestatus"), ""))
        archived_flag == StripLower(GetD(goal, "archived", ""))
    IN  IF lifecycle = "archived" \/ archived_flag \in {"true", "1", "yes"}
        THEN FALSE
        ELSE status \notin {"Completed"}

\* _collect_last_activity_by_goal: the latest parsed entry date of each goal
\* id that has a mapping with one
_collect_last_activity_by_goal(mappings) ==
    LET dated == {i \in 1..Len(mappings) :
                     /\ Truthy(Get(mappings[i], "goalid"))
                     /\ _parse_date(Or(Get(mappings[i], "entrydate"), "")) # None}
    IN  [g \in {mappings[i]["goalid"] : i \in dated} |->
            SortedLast([k \in 1..Cardinality({i \in dated : mappings[i]["goalid"] = g}) |->
                           LET of == {i \in dated : mappings[i]["goalid"] = g}
                               nth == CHOOSE i \in of : Cardinality({j \in of : j <= i}) = k
                           IN  mappings[nth]["entrydate"]])]

\* The target date lies between yesterday and the end of the window.
InUpcomingWindow(target_date, today, upcoming_window_days) ==
    \E target \in {target_date} :
        /\ target # None
        /\ ~StrLess(PlusDays(today, upcoming_window_days), target)
        /\ ~StrLess(target, PlusDays(today, -1))

\* [f(x) for x in seq]
MapSeq(seq, F(_)) == [i \in 1..Len(seq) |-> F(seq[i])]

\* The tests a goal row passes to get a line in the upcoming section.
GoalUpcoming(goal, today) ==
    /\ InUpcomingWindow(_parse_date(Or(Get(goal, "targetdate"), "")), today, 14)
    /\ _goal_is_active(goal)

\* The tests a milestone row passes to get a line in the upcoming section.
MilestoneUpcoming(milestone, today) ==
    /\ GetD(milestone, "status", "") # "Completed"
    /\ InUpcomingWindow(_parse_date(Or(Get(milestone, "targetdate"), "")), today, 14)

\* last_activity.get(goal_id)
LastDate(last_activity, goal_id) ==
    IF goal_id \in DOMAIN last_activity THEN last_activity[goal_id] ELSE None

\* The tests a goal row passes to get a line in the re-engage section.
GoalStale(goal, last_activity, today) ==
    /\ _goal_is_active(goal)
    /\ \E last_date \in {LastDate(last_activity, GetD(goal, "goalid", ""))} :
          ~(last_date # None /\ StrLeq(Chars(PlusDays(today, -14)), Chars(last_date)))
    /\ Truthy(GetD(goal, "goalid", ""))

\* The parts of _format_upcoming_line for a goal and for a milestone, and of
\* a re-engage line.
GoalUpcomingLine(goal) ==
    [kind |-> "Goal", goalid |-> GetD(goal, "goalid", ""),
     title |-> Or(Get(goal, "title"), Or(Get(goal, "goalid"), "Goal")),
     target |-> goal["targetdate"], status |-> GetD(goal, "status", "")]
MilestoneUpcomingLine(milestone) ==
    [kind |-> "Milestone", goalid |-> GetD(milestone, "goalid", ""),
     title |-> Or(Get(milestone, "title"), "Milestone"),
     target |-> milestone["targetdate"], status |-> GetD(milestone, "status", "")]
StaleLine(goal, last_activity) ==
    [goalid |-> goal["goalid"], title |-> Or(GetD(goal, "title", ""), "Goal"),
     last |-> Or(LastDate(last_activity, goal["goalid"]), "no activity yet")]

\* The two line lists of build_weekly_focus_message before they are sorted
\* into the message: one line per row that passes the row's own tests.
FocusLinesWith(goals, milestones, last_activity, today) ==
    [upcoming_lines |->
        MapSeq(SelectSeq(goals, LAMBDA goal : GoalUpcoming(goal, today)), GoalUpcomingLine)
        \o MapSeq(SelectSeq(milestones, LAMBDA milestone : MilestoneUpcoming(milestone, today)),
                  MilestoneUpcomingLine),
     stale_lines |->
        MapSeq(SelectSeq(goals, LAMBDA goal : GoalStale(goal, last_activity, today)),
               LAMBDA goal : StaleLine(goal, last_activity))]

FocusLines(goals, milestones, mappings, today) ==
    FocusLinesWith(goals, milestones, _collect_last_activity_by_goal(mappings), today)

\* The process after build_weekly_focus_message returned the message made
\* of the lines.
FocusBuilt(process, lines) ==
    [process EXCEPT !.pc = "focus_built", !.upcoming_lines = lines.upcoming_lines,
                    !.stale_lines = lines.stale_lines]

\* The records a list method returns, or [] in place of the exception it
\* raised.
RecordsOrEmpty(result) == IF result.kind = "error" THEN <<>> ELSE result.val

\* What a list method gives build_weekly_focus_message: the records of the
\* tab, or [] when the read fails, the tab is missing, its header differs or
\* a row fails its validation.
FocusRead(sheet, failed) ==
    LET rows == _get_sheet_rows(sheet, RemoteValues(sheet))
    IN  IF sheet \in failed \/ sheet \notin titles \/ rows.kind = "error"
        THEN <<>>
        ELSE RecordsOrEmpty(NormalizeRows(sheet, rows.val))

FocusSheets == {"Goals", "GoalMilestones", "GoalMappings"}

\* The process with the three lists in hand.
FocusLoaded(process, loaded) ==
    [process EXCEPT !.pc = "focus_loaded", !.goals = loaded["Goals"],
                    !.milestones = loaded["GoalMilestones"],
                    !.mappings = loaded["GoalMappings"]]

\* build_weekly_focus_message(storage_client, timezone), first half: the
\* three reads, of which those in `failed` raise from the transport.
build_weekly_focus_message_reads(failed) ==
    /\ app.pc = "idle"
    /\ app' = FocusLoaded(app, [sheet \in FocusSheets |-> FocusRead(sheet, failed)])
    /\ initialized' = initialized \cup
          {sheet \in FocusSheets \ failed :
              sheet \in titles /\ header[sheet] = HeadersOf(sheet)}
    /\ UNCHANGED <<max_retries, service, titles, header, data, thr, ops, rt, log>>

\* build_weekly_focus_message, second half: the lines of the two sections.
build_weekly_focus_message ==
    /\ app.pc = "focus_loaded"
    /\ app' = FocusBuilt(app, FocusLines(app.goals, app.milestones, app.mappings, FocusToday))
    /\ UNCHANGED <<max_retries, service, initialized, titles, header, data, thr, ops, rt, log>>

(***************************************************************************)
(* commands.py: the summary commands /week and /month.                     *)
(***************************************************************************)
\* _start_date_for_range(days).isoformat() and date.today().isoformat()
SummaryStart == "2024-06-01"
SummaryEnd == "2024-06-03"
SummarySheets == {"Goals", "Competencies", "GoalMappings"}

\* The mappings _fetch_goal_metadata keeps: start <= entrydate <= end
FilteredMappings(mappings, start_date, end_date) ==
    SelectSeq(mappings,
              LAMBDA mapping :
                  /\ StrLeq(Chars(start_date), Chars(GetD(mapping, "entrydate", "")))
                  /\ StrLeq(Chars(GetD(mapping, "entrydate", "")), Chars(end_date)))

\* _fetch_goal_metadata: the three optional loads, each [] when it raises,
\* and the date filter on the mappings
_fetch_goal_metadata(failed, start_date, end_date) ==
    [goals |-> FocusRead("Goals", failed),
     competencies |-> FocusRead("Competencies", failed),
     mappings |-> FilteredMappings(FocusRead("GoalMappings", failed), start_date, end_date)]

\* A lookup that answers an unknown id with an empty record.
ById_empty_placeholder(records, key, id) ==
    IF \E i \in 1..Len(records) : GetD(records[i], key, "") = id
    THEN records[CHOOSE i \in 1..Len(records) :
                     /\ GetD(records[i], key, "") = id
                     /\ \A j \in (i + 1)..Len(records) : GetD(records[j], key, "") # id]
    ELSE EmptyRec

\* {record.get(key, ""): record for record in records}.get(id, {key: id}):
\* the last record with the id, or the id-only placeholder
ById(records, key, id) ==
    IF \E i \in 1..Len(records) : GetD(records[i], key, "") = id
    THEN records[CHOOSE i \in 1..Len(records) :
                     /\ GetD(records[i], key, "") = id
                     /\ \A j \in (i + 1)..Len(records) : GetD(records[j], key, "") # id]
    ELSE (key :> id)

\* mappings_by_timestamp.get(entry.get("timestamp", ""), []): the mappings
\* with the entry's timestamp; mappings without timestamp are in no list
EntryMappings(mappings, entry) ==
    SelectSeq(mappings,
              LAMBDA mapping :
                  /\ Truthy(GetD(mapping, "entrytimestamp", ""))
                  /\ mapping["entrytimestamp"] = GetD(entry, "timestamp", ""))

\* The records attached to an entry for the ids its mappings carry under
\* `key`.
Attached(entry_mappings, records, key) ==
    MapSeq(SelectSeq(entry_mappings, LAMBDA mapping : Truthy(GetD(mapping, key, ""))),
           LAMBDA mapping : ById(records, key, mapping[key]))

\* One entry of the summary: the entry with its goals and competencies.
Enriched(entry, entry_mappings, goal_context) ==
    [entry |-> entry,
     goals |-> Attached(entry_mappings, goal_context.goals, "goalid"),
     competencies |-> Attached(entry_mappings, goal_context.competencies, "competencyid")]

_attach_goal_metadata(entries, goal_context) ==
    MapSeq(entries,
           LAMBDA entry : Enriched(entry, EntryMappings(goal_context.mappings, entry),
                                   goal_context))

\* The process after the reads of _send_summary.
SummaryLoaded(process, failed, entries, goal_context) ==
    [process EXCEPT !.pc = "summary_loaded", !.failed = failed, !.entries = entries,
                    !.goals = goal_context.goals,
                    !.competencies = goal_context.competencies,
                    !.mappings = goal_context.mappings]

\* _send_summary up to the end of its reads: without storage client the
\* not-configured reply; the entry read, whose exception ends the command
\* with the error reply; then the three optional loads.
_send_summary_reads(failed) ==
    /\ app.pc = "idle"
    /\ IF ~log.storage
       THEN /\ app' = [app EXCEPT !.pc = "summary_done", !.reply = "no_storage"]
            /\ UNCHANGED initialized
       ELSE IF EntrySheet \in failed
       THEN /\ app' = [app EXCEPT !.pc = "summary_done", !.reply = "fetch_failed",
                                  !.failed = failed]
            /\ UNCHANGED initialized
       ELSE /\ app' = SummaryLoaded(
                        app, failed,
                        get_entries_result(RemoteValues(EntrySheet), SummaryStart,
                                           SummaryEnd).val,
                        _fetch_goal_metadata(failed, SummaryStart, SummaryEnd))
            /\ initialized' = initialized \cup
                  {sheet \in ({EntrySheet} \cup SummarySheets) \ failed :
                      sheet \in titles /\ header[sheet] = HeadersOf(sheet)}
    /\ UNCHANGED <<max_retries, service, titles, header, data, thr, ops, rt, log>>

\* The rest of _send_summary: the metadata is attached and the summary of
\* the entries is the reply.
_send_summary ==
    /\ app.pc = "summary_loaded"
    /\ app' = [app EXCEPT
                  !.pc = "summary_done", !.reply = "summary",
                  !.enriched = _attach_goal_metadata(
                                   app.entries,
                                   [goals |-> app.goals, competencies |-> app.competencies,
                                    mappings |-> app.mappings])]
    /\ UNCHANGED <<max_retries, service, initialized, titles, header, data, thr, ops, rt, log>>

(***************************************************************************)
(* main.py: build_application.                                             *)
(***************************************************************************)
\* build_application after load_config returned: with a spreadsheet id the
\* storage client is constructed (its ready set empty), without one the
\* application is built with no storage client.  A ValueError of load_config
\* is logged and raised again: the process ends.
build_application ==
    /\ app.pc = "loaded"
    /\ app' = [app EXCEPT !.pc = IF Truthy(Get(app.config, "spreadsheet_id"))
                                 THEN "setup" ELSE "started"]
    /\ initialized' = {}
    /\ UNCHANGED <<max_retries, service, titles, header, data, thr, ops, rt, log>>

\* storage_client.ensure_sheet_setup() is called, once.
build_application_setup(t) ==
    /\ app.pc = "setup" /\ ops = 0
    /\ ops' = ops + 1
    /\ ensure_sheet_setup(t, "main")
    /\ UNCHANGED log

\* ensure_sheet_setup has ended: the client is stored in
\* bot_data["storage_client"] when it returned, and the exception is logged
\* and dropped when it raised; the application is built either way.
build_application_publish(t) ==
    /\ app.pc = "setup"
    /\ thr[t].owner = "main" /\ thr[t].pc = "done"
    /\ thr' = [thr EXCEPT ![t] = IdleThread]
    /\ log' = [log EXCEPT !.storage = (thr[t].result.kind # "error")]
    /\ app' = [app EXCEPT !.pc = "started"]
    /\ UNCHANGED <<max_retries, service, initialized, titles, header, data, ops, rt>>

(***************************************************************************)
(* Initial states and specifications.                                      *)
(***************************************************************************)
\* How a tab was provisioned before the process started.
Provisionings == {"absent", "no_header", "ok", "drifted"}
ProvisionedHeader(sheet, p) ==
    CASE p = "ok" -> HeadersOf(sheet)
      [] p = "drifted" -> DriftedHeader(sheet)
      [] OTHER -> <<>>

\* The spreadsheet at start: the entry tab in one provisioning state and the
\* domain tabs in another, with no data rows.
InitRemote ==
    \E pe \in Provisionings, pd \in Provisionings :
        /\ titles = {s \in Sheets : (IF s = EntrySheet THEN pe ELSE pd) # "absent"}
        /\ header = [s \in Sheets |->
                        ProvisionedHeader(s, IF s = EntrySheet THEN pe ELSE pd)]
        /\ data = [s \in Sheets |-> <<>>]

InitLocal ==
    /\ app = IdleApp
    /\ initialized = {}
    /\ thr = [t \in Threads |-> IdleThread]
    /\ ops = 0
    /\ rt = NoCall

\* A caller outside the model's handlers begins one more operation.
Caller == ops < MaxOps /\ ops' = ops + 1 /\ UNCHANGED log

\* The progress of an append on thread t.
AppendStep(t) ==
    \/ _execute_get_metadata(t)
    \/ _execute_create_sheet(t)
    \/ _execute_get_headers(t)
    \/ _execute_update_headers(t)
    \/ _execute_append(t)
    \/ _execute_append_no_effect(t)
    \/ ExecuteRaises(t)
    \/ ExecuteAppendLost(t)

\* The progress of any operation on thread t.
Step(t) ==
    \/ AppendStep(t)
    \/ _execute_get_rows(t)
    \/ _execute_get_entries(t)
    \/ Return(t)

(* Two callers on worker threads share one client: the entry sheet and the *)
(* mapping sheet.                                                          *)
Init ==
    /\ InitRemote /\ InitLocal
    /\ service = "ready"
    /\ max_retries = SharedMaxRetries
    /\ log = IdleLog

SharedEntryInputs == {r \in EntryInputs : r["date"] = "2024-06-03"}
SharedMappingInputs ==
    {m \in GoalMappingInputs :
        /\ DOMAIN m = {"entrytimestamp", "entrydate", "goalid", "competencyid"}
        /\ m["entrydate"] = "2024-06-03"}
        \cup {m \in GoalMappingInputs : DOMAIN m = {"entrytimestamp", "entrydate", "goalid"}
                                         /\ m["entrydate"] = "2024-06-03" /\ m["goalid"] = "G-1"}

Next ==
    \/ \E t \in Threads :
        \/ \E record \in SharedEntryInputs : Caller /\ append_entry(t, record, "caller")
        \/ Caller /\ get_entries_by_date_range(t, "2024-06-01", "2024-12-31", "caller")
        \/ Caller /\ ensure_sheet_setup(t, "caller")
        \/ \E mapping \in SharedMappingInputs : Caller /\ append_goal_mapping(t, mapping, "caller")
        \/ Caller /\ get_goal_mappings(t, "caller")
        \/ Step(t)
    \/ \E sheet \in Sheets : OperatorEditsHeader(sheet)

Spec == Init /\ [][Next]_vars

InitSeq ==
    /\ InitRemote /\ InitLocal
    /\ service = "ready"
    /\ max_retries = ClientMaxRetries
    /\ log = IdleLog

(* One caller at a time, every entity.                                     *)
NextSeq ==
    \/ \E t \in {"t1"} :
        \/ \E record \in EntryInputs : Caller /\ append_entry(t, record, "caller")
        \/ \E goal \in GoalInputs : Caller /\ append_goal(t, goal, "caller")
        \/ \E competency \in CompetencyInputs : Caller /\ append_competency(t, competency, "caller")
        \/ \E mapping \in GoalMappingInputs : Caller /\ append_goal_mapping(t, mapping, "caller")
        \/ \E milestone \in GoalMilestoneInputs :
              Caller /\ append_goal_milestone(t, milestone, "caller")
        \/ \E review \in GoalReviewInputs : Caller /\ append_goal_review(t, review, "caller")
        \/ \E evaluation \in GoalEvaluationInputs :
              Caller /\ append_goal_evaluation(t, evaluation, "caller")
        \/ \E evaluation \in CompetencyEvaluationInputs :
              Caller /\ append_competency_evaluation(t, evaluation, "caller")
        \/ \E setting \in ReminderSettingInputs :
              Caller /\ append_reminder_setting(t, setting, "caller")
        \/ Caller /\ get_goals(t, "caller")
        \/ Caller /\ get_goal_milestones(t, "caller")
        \/ Caller /\ get_competencies(t, "caller")
        \/ Caller /\ get_goal_reviews(t, "caller")
        \/ Caller /\ get_goal_evaluations(t, "caller")
        \/ Caller /\ get_competency_evaluations(t, "caller")
        \/ Caller /\ get_reminder_settings(t, "caller")
        \/ Caller /\ get_goal_mappings(t, "caller")
        \/ \E r \in DateRanges : Caller /\ get_entries_by_date_range(t, r[1], r[2], "caller")
        \/ Caller /\ ensure_sheet_setup(t, "caller")
        \/ Step(t)
    \/ \E sheet \in Sheets : OperatorEditsHeader(sheet)

SpecSeq == InitSeq /\ [][NextSeq]_vars

(* The retry wrapper on its own, for every max_retries up to the bound.    *)
InitRetry ==
    /\ InitLocal
    /\ titles = Sheets
    /\ header = [s \in Sheets |-> HeadersOf(s)]
    /\ data = [s \in Sheets |-> <<>>]
    /\ service = "ready"
    /\ max_retries \in 0..MaxRetriesBound
    /\ log = IdleLog

NextRetry == RetryCall \/ RetryAttemptReturns \/ RetryAttemptRaises

SpecRetry == InitRetry /\ [][NextRetry]_vars

(* The entry-logging command over the client.                              *)
InitLog ==
    /\ InitRemote /\ InitLocal
    /\ service = "ready"
    /\ max_retries = ClientMaxRetries
    /\ \E st \in BOOLEAN : log = [IdleLog EXCEPT !.storage = st]

NextLog ==
    \/ \E t \in Threads :
        \/ \E text \in LogTexts, entry_type \in {"accomplishment", "task", "idea"} :
              LogReceive(t, text, entry_type)
        \/ LogEntryDone(t)
        \/ LogSubmitMapping(t)
        \/ LogMappingDone(t)
        \/ AppendStep(t)
    \/ \E sheet \in Sheets : OperatorEditsHeader(sheet)

SpecLog == InitLog /\ [][NextLog]_vars

(* One caller on a client constructed without a service object: the first *)
(* request closure builds the service from the configured credential.      *)
DefaultMaxRetries == 3

InitCred ==
    /\ InitRemote /\ InitLocal
    /\ service \in {"unbuilt", "invalid"}
    /\ max_retries = DefaultMaxRetries
    /\ log = IdleLog

NextCred ==
    \E t \in {"t1"} :
        \/ \E record \in SharedEntryInputs : Caller /\ append_entry(t, record, "caller")
        \/ \E mapping \in GoalMappingInputs : Caller /\ append_goal_mapping(t, mapping, "caller")
        \/ Caller /\ get_goals(t, "caller")
        \/ \E r \in DateRanges : Caller /\ get_entries_by_date_range(t, r[1], r[2], "caller")
        \/ Caller /\ ensure_sheet_setup(t, "caller")
        \/ Step(t)
        \/ _get_service_raises(t)

SpecCred == InitCred /\ [][NextCred]_vars

(* One caller on a spreadsheet that already holds rows.                    *)
ExistingEntries ==
    <<<<"2024-06-01T08:00:00", "2024-06-01", "accomplishment", "Shipped the beta", "", "telegram">>,
      <<"2024-06-03T08:30:00", "2024-06-03", "task", "Plan the demo">>>>
ExistingGoals ==
    <<<<"GOAL-1", "Ship beta", "Public beta", "50", "Not Started", "", "2024-06-01",
        "2024-12-31", "2024-12-31", "dana", "kickoff", "Active", "", "2024-06-03T09:00:00", "", "">>,
      <<"GOAL-2", "Mentor", "", "", "In Progress", "", "", "", "", "", "", "Active", "", "", "", "">>,
      <<"GOAL-1", "Ship beta v2", "Public beta, EU first", "100", "In Progress", "50", "2024-06-03",
        "2024-12-31", "2024-06-03", "erin", "rescoped", "Updated", "", "2024-06-03T09:00:00", "",
        "Edited via bot">>>>

InitExisting ==
    /\ InitLocal
    /\ service = "ready"
    /\ max_retries = ClientMaxRetries
    /\ log = IdleLog
    /\ titles = Sheets
    /\ \E pe \in {"no_header", "ok", "drifted"} :
          header = [s \in Sheets |->
                       IF s = EntrySheet THEN ProvisionedHeader(s, pe) ELSE HeadersOf(s)]
    /\ data = [s \in Sheets |->
                  CASE s = EntrySheet -> ExistingEntries
                    [] s = "Goals" -> ExistingGoals
                    [] OTHER -> <<>>]

NextExisting ==
    \/ \E t \in {"t1"} :
        \/ \E record \in SharedEntryInputs : Caller /\ append_entry(t, record, "caller")
        \/ \E r \in DateRanges : Caller /\ get_entries_by_date_range(t, r[1], r[2], "caller")
        \/ Caller /\ ensure_sheet_setup(t, "caller")
        \/ \E goal \in GoalInputs : Caller /\ append_goal(t, goal, "caller")
        \/ Caller /\ get_goals(t, "caller")
        \/ _execute_get_metadata(t)
        \/ _execute_get_headers(t)
        \/ _execute_update_headers(t)
        \/ _execute_append(t)
        \/ _execute_append_no_effect(t)
        \/ _execute_get_rows(t)
        \/ _execute_get_entries(t)
        \/ ExecuteRaises(t)
        \/ ExecuteAppendLost(t)
        \/ Return(t)
    \/ \E sheet \in Sheets : OperatorEditsHeader(sheet)

SpecExisting == InitExisting /\ [][NextExisting]_vars

(* The goal commands on a spreadsheet whose Goals tab records GOAL-1 twice. *)
InitGoal ==
    /\ InitLocal
    /\ service = "ready"
    /\ max_retries = ClientMaxRetries
    /\ \E st \in BOOLEAN : log = [IdleLog EXCEPT !.storage = st]
    /\ titles = Sheets
    /\ \E pg \in {"ok", "drifted"} :
          header = [s \in Sheets |-> IF s = "Goals" THEN ProvisionedHeader(s, pg) ELSE HeadersOf(s)]
    /\ data = [s \in Sheets |-> IF s = "Goals" THEN ExistingGoals ELSE <<>>]

NextGoal ==
    \/ \E t \in Threads :
        \/ \E text \in GoalStatusTexts : update_goal_status(t, text)
        \/ \E text \in GoalEditTexts : edit_goal(t, text)
        \/ \E text \in GoalArchiveTexts : archive_goal(t, text)
        \/ \E text \in GoalSupersedeTexts : supersede_goal(t, text)
        \/ GoalsLoaded(t)
        \/ GoalSubmitAppend(t)
        \/ GoalAppendDone(t)
        \/ _execute_get_metadata(t)
        \/ _execute_get_headers(t)
        \/ _execute_get_rows(t)
        \/ _execute_append(t)
        \/ _execute_append_no_effect(t)
        \/ ExecuteRaises(t)
        \/ ExecuteAppendLost(t)
    \/ \E text \in GoalMilestoneTexts : add_goal_milestone(text)
    \/ \E text \in GoalMilestoneTexts : complete_goal_milestone(text)

SpecGoal == InitGoal /\ [][NextGoal]_vars

(* One caller reading tabs whose rows were written by earlier processes or  *)
(* by hand: ragged rows, rows with invalid cells, legacy mapping rows.      *)
StoredGoalRows ==
    {ExistingGoals[1],
     ExistingGoals[1] \o <<"beyond the schema">>,
     <<"GOAL-2", "Mentor", "", "", "In Progress">>,
     <<"GOAL-3", "Ship", "", "", "Started">>,
     <<"GOAL-4">>}
StoredMappingRows ==
    {<<"2024-06-03T09:00:00", "2024-06-03", "GOAL-1">>,
     <<"2024-06-03T09:00:00", "2024-06-03", "", "communication", "">>,
     <<"2024-06-03T09:00:00", "2024-06-03", "GOAL-1", "communication", "legacy">>,
     <<"2024-06-03T09:00:00", "2024-06-03">>,
     <<"2024-06-03T09:00:00", "2024-06-03", "", "", "no reference">>}
StoredEntryRows ==
    {<<"2024-06-01T08:00:00", "2024-06-01", "accomplishment", "Shipped the beta", "", "telegram">>,
     <<"2024-06-03T08:30:00", "2024-06-03", "task">>,
     <<"2024-12-31T10:00:00", "2024-12-31", "idea", "Next year", "", "telegram", "beyond">>,
     <<"2024-06-03T09:00:00">>}
StoredRows(sheet) ==
    CASE sheet = "Goals" -> StoredGoalRows
      [] sheet = "GoalMappings" -> StoredMappingRows
      [] sheet = EntrySheet -> StoredEntryRows
      [] OTHER -> {}

\* The sequences of at most n elements of S.
SeqsUpTo(S, n) == UNION {[1..k -> S] : k \in 0..n}

InitRead ==
    /\ InitLocal
    /\ service = "ready"
    /\ max_retries = SharedMaxRetries
    /\ log = IdleLog
    /\ titles = Sheets
    /\ header = [s \in Sheets |-> HeadersOf(s)]
    /\ \E sheet \in {"Goals", "GoalMappings", EntrySheet} :
       \E rows \in SeqsUpTo(StoredRows(sheet), MaxStored) :
           data = [s \in Sheets |-> IF s = sheet THEN rows ELSE <<>>]

\* Another writer of the same spreadsheet appends a row.
OtherWriterAppends(sheet, row) ==
    /\ Len(data[sheet]) < MaxStored
    /\ data' = [data EXCEPT ![sheet] = Append(@, row)]
    /\ UNCHANGED <<app, max_retries, service, initialized, titles, header, thr, ops, rt, log>>

ReadGoalInputs ==
    {[goalid |-> "GOAL-5", title |-> "Hire", status |-> st] : st \in {"In Progress", "Started"}}
ReadMappingInputs ==
    {[entrytimestamp |-> "2024-06-03T09:00:00", entrydate |-> "2024-06-03", goalid |-> "GOAL-1",
      competencyid |-> c] : c \in {"", "communication"}}

NextRead ==
    \/ \E t \in {"t1"} :
        \/ Caller /\ get_goals(t, "caller")
        \/ Caller /\ get_goal_mappings(t, "caller")
        \/ \E r \in DateRanges : Caller /\ get_entries_by_date_range(t, r[1], r[2], "caller")
        \/ \E goal \in ReadGoalInputs : Caller /\ append_goal(t, goal, "caller")
        \/ \E mapping \in ReadMappingInputs : Caller /\ append_goal_mapping(t, mapping, "caller")
        \/ _execute_get_metadata(t)
        \/ _execute_get_headers(t)
        \/ _execute_append(t)
        \/ _execute_get_rows(t)
        \/ _execute_get_entries(t)
        \/ ExecuteRaises(t)
        \/ Return(t)
    \/ OtherWriterAppends("GoalMappings", <<"2024-06-03T09:30:00", "2024-06-03", "GOAL-2">>)
    \/ OperatorEditsHeader(EntrySheet)

SpecRead == InitRead /\ [][NextRead]_vars

(* The listing commands over a spreadsheet that holds goals and up to      *)
(* MaxMilestones milestone rows.                                            *)
StoredMilestoneRows ==
    {<<"GOAL-1", "Kickoff", "", "2024-06-01", "Completed">>,
     <<"GOAL-1", "Beta", "", "2024-06-03", "Completed", "shipped">>,
     <<"GOAL-1", "Launch", "2024-12-31", "", "In Progress">>,
     <<"GOAL-1", "Retro", "", "", "Completed">>,
     <<"GOAL-1", "Draft", "", "2024-12-31", "Deferred">>,
     <<"GOAL-1", "Plan", "", "2024-6-1", "Completed">>,
     <<"GOAL-2", "Pairing", "", "2024-12-31", "Completed">>}

InitList ==
    /\ InitLocal
    /\ service = "ready"
    /\ max_retries = SharedMaxRetries
    /\ \E st \in BOOLEAN : log = [IdleLog EXCEPT !.storage = st]
    /\ titles = Sheets
    /\ header = [s \in Sheets |-> HeadersOf(s)]
    /\ \E goals \in {<<>>, ExistingGoals} :
       \E milestones \in SeqsUpTo(StoredMilestoneRows, MaxMilestones) :
           data = [s \in Sheets |-> CASE s = "Goals" -> goals
                                      [] s = "GoalMilestones" -> milestones
                                      [] OTHER -> <<>>]

NextList ==
    \E t \in Threads :
        \/ list_goals(t)
        \/ goals_summary(t)
        \/ GoalsListed(t)
        \/ RollupRead(t)
        \/ RollupLoaded(t)
        \/ _execute_get_metadata(t)
        \/ _execute_get_headers(t)
        \/ _execute_get_rows(t)
        \/ ExecuteRaises(t)

SpecList == InitList /\ [][NextList]_vars

(* The application with its gate: every update goes through               *)
(* authorize_user, and an update that passed is handled by /log.           *)
InitGate ==
    /\ InitRemote /\ InitLocal
    /\ service = "ready"
    /\ max_retries = SharedMaxRetries
    /\ \E allowed \in AllowLists : log = [IdleLog EXCEPT !.allowed = allowed]

NextGate ==
    \/ \E user \in UserIds : authorize_user(user)
    \/ \E t \in Threads :
        \/ \E text \in LogTexts : GatePassed /\ LogReceive(t, text, "accomplishment")
        \/ LogEntryDone(t)
        \/ LogSubmitMapping(t)
        \/ LogMappingDone(t)
        \/ AppendStep(t)

SpecGate == InitGate /\ [][NextGate]_vars

(* The process reads its configuration from an environment.               *)
InitConfig ==
    /\ initialized = {}
    /\ thr = [t \in Threads |-> IdleThread]
    /\ ops = 0
    /\ rt = NoCall
    /\ service = "ready"
    /\ max_retries = DefaultMaxRetries
    /\ log = IdleLog
    /\ titles = Sheets
    /\ header = [s \in Sheets |-> HeadersOf(s)]
    /\ data = [s \in Sheets |-> <<>>]
    /\ \E env \in EnvValues : app = [IdleApp EXCEPT !.env = env]

NextConfig == load_config

SpecConfig == InitConfig /\ [][NextConfig]_vars

(* A summarizer created with or without a client, enabled or not.         *)
InitSummarizer ==
    /\ initialized = {}
    /\ thr = [t \in Threads |-> IdleThread]
    /\ ops = 0
    /\ rt = NoCall
    /\ service = "ready"
    /\ max_retries = DefaultMaxRetries
    /\ log = IdleLog
    /\ titles = Sheets
    /\ header = [s \in Sheets |-> HeadersOf(s)]
    /\ data = [s \in Sheets |-> <<>>]
    /\ \E enabled \in BOOLEAN, ai_client \in BOOLEAN :
          app = [IdleApp EXCEPT !.enabled = enabled, !.ai_client = ai_client]

NextSummarizer ==
    \/ \E entries \in SummaryEntries : _summarize(entries)
    \/ \E result \in ProviderResults : ProviderEnds(result)

SpecSummarizer == InitSummarizer /\ [][NextSummarizer]_vars

(* Operations on tabs that an operator repairs between them.              *)
InitRepair ==
    /\ InitRemote /\ InitLocal
    /\ service = "ready"
    /\ max_retries = SharedMaxRetries
    /\ log = IdleLog

RepairMappingInputs ==
    {m \in SharedMappingInputs : DOMAIN m = {"entrytimestamp", "entrydate", "goalid"}}

NextRepair ==
    \/ \E t \in Threads :
        \/ \E record \in SharedEntryInputs : Caller /\ append_entry(t, record, "caller")
        \/ \E mapping \in RepairMappingInputs : Caller /\ append_goal_mapping(t, mapping, "caller")
        \/ Caller /\ get_entries_by_date_range(t, "2024-06-01", "2024-12-31", "caller")
        \/ Caller /\ get_goal_mappings(t, "caller")
        \/ Step(t)
    \/ \E sheet \in {EntrySheet, "GoalMappings"} : OperatorRepairsSheet(sheet)

SpecRepair == InitRepair /\ [][NextRepair]_vars

(* The weekly focus reminder over a Goals tab of appended versions.        *)
GoalRow(goalid, title, status, targetdate, lifecyclestatus, archived) ==
    <<goalid, title, "", "", status, "", "", "", targetdate, "", "", lifecyclestatus, "", "",
      archived, "">>

StoredFocusGoalRows ==
    {GoalRow("GOAL-1", "Ship beta", "In Progress", "2024-06-10", "Active", ""),
     GoalRow("GOAL-1", "Ship beta", "Completed", "2024-06-10", "Updated", ""),
     GoalRow("GOAL-1", "Ship beta", "In Progress", "2024-06-10", "Archived", "TRUE"),
     GoalRow("GOAL-1", "Ship beta v2", "In Progress", "2024-12-31", "Updated", ""),
     GoalRow("GOAL-2", "Mentor", "Not Started", "", "Active", "")}

StoredFocusMappingRows ==
    {<<"2024-06-03T09:00:00", "2024-06-01", "GOAL-1">>,
     <<"2024-06-03T09:00:00", "2024-05-01", "GOAL-1">>}

MaxGoalRows == 2

InitFocus ==
    /\ InitLocal
    /\ service = "ready"
    /\ max_retries = DefaultMaxRetries
    /\ log = IdleLog
    /\ titles = Sheets
    /\ header = [s \in Sheets |-> HeadersOf(s)]
    /\ \E goals \in UNION {[1..n -> StoredFocusGoalRows] : n \in 0..MaxGoalRows},
          mappings \in UNION {[1..n -> StoredFocusMappingRows] : n \in 0..1} :
          data = [s \in Sheets |->
                     CASE s = "Goals" -> goals
                       [] s = "GoalMappings" -> mappings
                       [] s = "GoalMilestones" ->
                             <<<<"GOAL-1", "Beta", "2024-06-10", "", "In Progress">>>>
                       [] OTHER -> <<>>]

NextFocus ==
    \/ \E failed \in SUBSET FocusSheets : build_weekly_focus_message_reads(failed)
    \/ build_weekly_focus_message

SpecFocus == InitFocus /\ [][NextFocus]_vars

(* The summary command over entries whose mappings name goals and         *)
(* competencies that the Goals and Competencies tabs may lack.             *)
StoredSummaryEntries ==
    <<<<"2024-06-03T09:00:00", "2024-06-03", "task", "Prep slides", "#planning", "telegram">>,
      <<"2024-06-01T08:00:00", "2024-06-01", "idea", "Try pairing", "", "telegram">>>>

StoredSummaryMappingRows ==
    {<<"2024-06-03T09:00:00", "2024-06-03", "GOAL-1">>,
     <<"2024-06-03T09:00:00", "2024-06-03", "GOAL-9">>,
     <<"2024-06-03T09:00:00", "2024-06-03", "", "communication">>,
     <<"2024-06-01T08:00:00", "2024-05-01", "GOAL-1">>}

InitSummary ==
    /\ InitLocal
    /\ service = "ready"
    /\ max_retries = DefaultMaxRetries
    /\ \E st \in BOOLEAN : log = [IdleLog EXCEPT !.storage = st]
    /\ titles = Sheets
    /\ header = [s \in Sheets |-> HeadersOf(s)]
    /\ \E goals \in {<<>>, <<GoalRow("GOAL-1", "Ship beta", "In Progress", "", "Active", "")>>},
          competencies \in {<<>>, <<<<"communication", "Communication", "", "Active">>>>},
          mappings \in UNION {[1..n -> StoredSummaryMappingRows] : n \in 0..MaxStored} :
          data = [s \in Sheets |->
                     CASE s = EntrySheet -> StoredSummaryEntries
                       [] s = "Goals" -> goals
                       [] s = "Competencies" -> competencies
                       [] s = "GoalMappings" -> mappings
                       [] OTHER -> <<>>]

NextSummary ==
    \/ \E failed \in SUBSET ({EntrySheet} \cup SummarySheets) : _send_summary_reads(failed)
    \/ _send_summary

SpecSummary == InitSummary /\ [][NextSummary]_vars

(* The process from its start: configuration, storage setup, and then the *)
(* handlers of the running application.                                    *)
StartupEnvs ==
    {env \in EnvValues :
        /\ env.TELEGRAM_BOT_TOKEN = "token" /\ env.TELEGRAM_ALLOWED_USERS = None
        /\ env.SERVICE_ACCOUNT_FILE = None
        /\ env.SERVICE_ACCOUNT_JSON \in {"{\"client_email\": \"bot\"}", "{broken"}
        /\ env.REMINDERS_ENABLED = "false" /\ env.REMINDER_CHAT_ID = None}

InitStartup ==
    /\ InitRemote
    /\ initialized = {}
    /\ thr = [t \in Threads |-> IdleThread]
    /\ ops = 0
    /\ rt = NoCall
    /\ service \in {"unbuilt", "invalid"}
    /\ max_retries = DefaultMaxRetries
    /\ log = [IdleLog EXCEPT !.storage = FALSE]
    /\ \E env \in StartupEnvs : app = [IdleApp EXCEPT !.env = env]

NextStartup ==
    \/ load_config
    \/ build_application
    \/ \E t \in {"t1"} : build_application_setup(t)
    \/ \E t \in Threads :
        \/ build_application_publish(t)
        \/ \E text \in {"", "Shipped #goal:GOAL-1"} :
              app.pc = "started" /\ LogReceive(t, text, "task")
        \/ LogEntryDone(t)
        \/ LogSubmitMapping(t)
        \/ LogMappingDone(t)
        \/ app.pc = "started" /\ list_goals(t)
        \/ GoalsListed(t)
        \/ _execute_get_rows(t)
        \/ AppendStep(t)
        \/ _get_service_raises(t)

SpecStartup == InitStartup /\ [][NextStartup]_vars

(***************************************************************************)
(* Properties.                                                             *)
(***************************************************************************)
Range(f) == {f[i] : i \in DOMAIN f}
Last(q) == q[Len(q)]
RECURSIVE Pow2(_)
Pow2(n) == IF n = 0 THEN 1 ELSE 2 * Pow2(n - 1)

\* The operation on thread t has not ended with an exception.
NotFailed(t) == thr[t].result.kind # "error"
\* The operation on thread t ended with the exception e.
FailedWith(t, e) == thr[t].result.kind = "error" /\ thr[t].result.err = e

\* C1: two callers that race on the first use of a sheet establish readiness
\* once: at most one of them issues a create-sheet call for the sheet, and at
\* most one a header write.  (Stated over operations that meet no transport
\* failure, so that a second call is never a retry.)
C1_ReadinessEstablishedOnce ==
    \A s \in Sheets, a \in {"create_sheet", "update_headers"} :
        Cardinality({t \in Threads : /\ thr[t].sheet = s
                                     /\ NotFailed(t)
                                     /\ a \in Range(thr[t].trace)}) <= 1

\* C2: a call whose underlying call fails k-1 times and then succeeds, k from
\* 1 to max_retries, returns that success's result after exactly k underlying
\* calls: a success ends the call with its own result, nothing is called after
\* it, and the wrapper keeps trying while fewer than max_retries calls failed.
C2_SucceedsOnAttemptK ==
    /\ Len(rt.calls) <= max_retries
    /\ \A i \in 1..(Len(rt.calls) - 1) : ~rt.calls[i].ok
    /\ (rt.calls # <<>> /\ Last(rt.calls).ok)
          => (rt.status = "returned" /\ rt.result = Last(rt.calls).val)
    /\ (rt.status = "returned" /\ max_retries >= 1)
          => (rt.calls # <<>> /\ Last(rt.calls).ok)
    /\ (rt.status # "none" /\ Len(rt.calls) < max_retries /\ \A i \in 1..Len(rt.calls) : ~rt.calls[i].ok)
          => rt.status = "calling"

\* The default configuration's case: fails twice, succeeds on the third call.
C2_Witness ==
    /\ max_retries = 3 /\ rt.status = "returned" /\ Len(rt.calls) = 3
    /\ ~rt.calls[1].ok /\ ~rt.calls[2].ok /\ rt.result = rt.calls[3].val

\* C3: a call whose underlying call fails on all max_retries attempts makes
\* exactly max_retries underlying calls and raises the last attempt's error
\* itself.
C3_RaisesFinalError ==
    /\ rt.status = "raised"
          => /\ Len(rt.calls) = max_retries
             /\ \A i \in 1..Len(rt.calls) : ~rt.calls[i].ok
             /\ rt.error = Last(rt.calls).val
    /\ (max_retries >= 1 /\ Len(rt.calls) = max_retries /\ ~Last(rt.calls).ok)
          => rt.status = "raised"

\* All three attempts fail, the last with another error than the one before.
C3_Witness ==
    /\ max_retries = 3 /\ rt.status = "raised" /\ Len(rt.calls) = 3
    /\ rt.calls[2].val = "HttpError" /\ rt.calls[3].val = "TimeoutError"
    /\ rt.error = "TimeoutError"

\* C4: the wait before attempt i+1 is 2^(i-1): one wait after each failed
\* attempt that another attempt follows, none after a success or after the
\* last failure.
C4_BackoffDoubles ==
    /\ \A i \in 1..Len(rt.waits) : rt.waits[i] = Pow2(i - 1)
    /\ rt.status = "calling" => Len(rt.waits) = Len(rt.calls)
    /\ rt.status \in {"returned", "raised"} /\ rt.calls # <<>>
          => Len(rt.waits) = Len(rt.calls) - 1
    /\ rt.calls = <<>> => rt.waits = <<>>

\* Three failures, three waits, before a fourth attempt.
C4_Witness == rt.waits = <<1, 2, 4>> /\ rt.status = "returned"

\* The columns that may not be empty in a row of a domain sheet: the ones the
\* row readers refuse when empty.
RequiredColumns(sheet) ==
    CASE sheet = "Goals" -> {1, 2}
      [] sheet = "GoalMilestones" -> {1, 2}
      [] sheet = "Competencies" -> {1, 2}
      [] sheet = "GoalMappings" -> {1, 2}
      [] sheet = "GoalReviews" -> {1, 5}
      [] sheet = "GoalEvaluations" -> {1, 5}
      [] sheet = "CompetencyEvaluations" -> {1, 4}
      [] sheet = "ReminderSettings" -> {1}
      [] OTHER -> {}

\* C5: an append of a record with an empty or missing required field fails
\* validation before any remote call: no append gets past validation (has a
\* row to send) with a required cell empty, and no such row is ever stored.
C5_RequiredFieldsBeforeAnyCall ==
    /\ \A t \in Threads :
          (thr[t].kind = "append" /\ thr[t].values # <<>>)
             => \A i \in RequiredColumns(thr[t].sheet) : thr[t].values[i] # ""
    /\ \A sheet \in DomainSheets : \A r \in DOMAIN data[sheet] :
          \A i \in RequiredColumns(sheet) : data[sheet][r][i] # ""

\* Exactly one of the two identifier cells of a GoalMappings row is filled.
ExactlyOneId(row) == (row[3] # "") # (row[4] # "")

C7_MappingRowForGoalAndCompetency ==
    (/\ log.pc = "finished" /\ log.reply = "confirmation"
     /\ log.text = "Completed rollout #goal:GOAL-1 #comp:communication"
     /\ LogThreads = {} /\ log.pending = <<>>
     /\ "GoalMappings" \in titles /\ header["GoalMappings"] = GOAL_MAPPING_HEADERS)
       => \E r \in DOMAIN data["GoalMappings"] :
             /\ data["GoalMappings"][r][1] = log.record["timestamp"]
             /\ data["GoalMappings"][r][3] = "GOAL-1"
             /\ data["GoalMappings"][r][4] = "communication"

\* The remote calls an operation of the given kind makes for its data.
DataCalls(kind) ==
    CASE kind = "append" -> {"append"}
      [] kind = "rows" -> {"get_rows"}
      [] kind = "entries" -> {"get_entries"}
      [] OTHER -> {}

ReadyOpsOnlyDataCall ==
    \A t \in Threads :
        thr[t].readyAtStart
           => /\ Range(thr[t].trace) \subseteq DataCalls(thr[t].kind)
              /\ Len(thr[t].trace) <= max_retries

\* C8: an operation that starts on a sheet already in the ready set makes no
\* get-metadata, create-sheet, header-read or header-write call, only its
\* data append or full-range read and the retries of it; and no step removes
\* a sheet from the ready set.
C8_ReadyIsNeverRechecked ==
    /\ []ReadyOpsOnlyDataCall
    /\ [][initialized \subseteq initialized']_vars

\* A list on a ready sheet that was retried once: two calls, both the read.
C8_Witness ==
    \E t \in Threads :
        /\ thr[t].readyAtStart /\ thr[t].kind = "rows" /\ thr[t].pc = "done"
        /\ thr[t].trace = <<"get_rows", "get_rows">> /\ NotFailed(t)

\* C9 as stated: no operation that starts on a ready sheet fails with a
\* header mismatch.
C9_ReadyNeverFailsOnHeader ==
    \A t \in Threads : thr[t].readyAtStart => ~FailedWith(t, "header_mismatch")

\* The read of a list operation on thread t returns in this step.
ListReadReturns(t) ==
    /\ Calling(t, "get_rows") /\ thr'[t].pc = "done"
    /\ ~(thr'[t].result.kind = "error" /\ thr'[t].result.err = "HttpError")

\* C9, amended: on a ready sheet whose header was changed out of band, appends,
\* entry reads and sheet setup never fail with a header mismatch, and no
\* operation re-runs the header check of the initialiser; a list of a domain
\* sheet compares the first row of the range it read and fails with a header
\* mismatch exactly when that row is not the schema's header.
C9_ReadyAppendsIgnoreHeaderListsDoNot ==
    /\ [](\A t \in Threads :
             thr[t].readyAtStart
                => /\ "get_headers" \notin Range(thr[t].trace)
                   /\ FailedWith(t, "header_mismatch") => thr[t].kind = "rows")
    /\ [][\A t \in Threads :
             ListReadReturns(t)
                => ((thr'[t].result.kind = "error" /\ thr'[t].result.err = "header_mismatch")
                       <=> (/\ RemoteValues(thr[t].sheet) # <<>>
                            /\ header[thr[t].sheet] # HeadersOf(thr[t].sheet)))]_vars

\* On a ready sheet with a damaged header, an append went through and wrote
\* its row.
C9_Witness ==
    \E t \in Threads :
        /\ thr[t].readyAtStart /\ thr[t].kind = "append" /\ thr[t].sheet \in DomainSheets
        /\ thr[t].pc = "done" /\ NotFailed(t)
        /\ header[thr[t].sheet] = DriftedHeader(thr[t].sheet)
        /\ data[thr[t].sheet] # <<>>
        /\ Last(data[thr[t].sheet]) = NormalizedValues(thr[t].values, HeadersOf(thr[t].sheet))

\* An operation that touched a domain sheet the client had not made ready,
\* got past validation and met no transport failure.
FirstTouchEnded(t) ==
    /\ thr[t].sheet \in DomainSheets /\ thr[t].sheet \notin initialized
    /\ thr[t].pc = "done" /\ thr[t].trace # <<>>
    /\ ~FailedWith(t, "HttpError")

\* C10: no operation on a domain sheet issues a create-sheet or header-write
\* call, and no adapter step changes the tabs or the header of a domain
\* sheet; an operation that finds the sheet absent fails with "sheet is
\* missing" after the metadata call alone, one that finds the header absent or
\* mismatched fails with "header mismatch" after the metadata call and the
\* header read alone, and the sheet holds no row afterwards.
C10_DomainSheetsNeverProvisioned ==
    /\ [](\A t \in Threads :
             /\ thr[t].sheet \in DomainSheets
                   => Range(thr[t].trace) \cap {"create_sheet", "update_headers"} = {}
             /\ FirstTouchEnded(t)
                   => /\ data[thr[t].sheet] = <<>>
                      /\ thr[t].sheet \notin titles
                            => /\ FailedWith(t, "sheet_missing")
                               /\ Range(thr[t].trace) = {"get_metadata"}
                      /\ (thr[t].sheet \in titles /\ header[thr[t].sheet] # HeadersOf(thr[t].sheet))
                            => /\ FailedWith(t, "header_mismatch")
                               /\ Range(thr[t].trace) = {"get_metadata", "get_headers"})
    /\ [][\A sheet \in DomainSheets :
             /\ (sheet \in titles') = (sheet \in titles)
             /\ header'[sheet] # header[sheet] => thr' = thr]_vars

\* An append to a tab provisioned without a header row failed on the header
\* after the two reads, and nothing was written.
C10_Witness ==
    \E t \in Threads :
        /\ thr[t].kind = "append" /\ thr[t].sheet \in DomainSheets
        /\ thr[t].sheet \in titles /\ header[thr[t].sheet] = <<>>
        /\ FailedWith(t, "header_mismatch")
        /\ thr[t].trace = <<"get_metadata", "get_headers">>
        /\ data[thr[t].sheet] = <<>>

\* No remote call of the operation on thread t failed: no call was repeated
\* and none raised.
NoTransportFailure(t) ==
    /\ ~FailedWith(t, "HttpError") /\ ~FailedWith(t, "CredentialsError")
    /\ \A i \in 1..(Len(thr[t].trace) - 1) : thr[t].trace[i] # thr[t].trace[i + 1]

\* The create-sheet call of thread t returns in this step.
CreateSheetReturns(t) == Calling(t, "create_sheet") /\ thr'[t].pc = "get_headers"
\* The header write of thread t returns in this step.
HeaderWriteReturns(t) ==
    /\ Calling(t, "update_headers")
    /\ thr'[t].pc # "update_headers" /\ thr'[t].result.kind # "error"

\* C11: with one caller, a create-sheet call for the entry sheet returns only
\* while the tab is absent and leaves it present, a header write returns only
\* while the header differs and leaves it equal to HEADERS, so each happens
\* once; the entry sheet enters the ready set only with the tab present and
\* the header equal to HEADERS; and the operation that found the tab absent
\* issues get-metadata, create-sheet, header read, header write in this order
\* and has the sheet ready when they all succeeded.
C11_EntrySheetProvisionedOnce ==
    /\ [][\A t \in Threads :
             thr[t].sheet = EntrySheet
                => /\ CreateSheetReturns(t)
                         => (EntrySheet \notin titles /\ EntrySheet \in titles')
                   /\ HeaderWriteReturns(t)
                         => (header[EntrySheet] # HEADERS /\ header'[EntrySheet] = HEADERS)
                   /\ (EntrySheet \in initialized' /\ EntrySheet \notin initialized)
                         => (EntrySheet \in titles' /\ header'[EntrySheet] = HEADERS)]_vars
    /\ [](\A t \in Threads :
             (/\ thr[t].sheet = EntrySheet /\ "create_sheet" \in Range(thr[t].trace)
              /\ NoTransportFailure(t) /\ NotFailed(t)
              /\ thr[t].pc \in {"append", "get_entries", "done"})
                => /\ SubSeq(thr[t].trace, 1, 4)
                         = <<"get_metadata", "create_sheet", "get_headers", "update_headers">>
                   /\ EntrySheet \in initialized)

\* ensure_sheet_setup on a spreadsheet without the entry tab has returned.
C11_Witness ==
    \E t \in Threads :
        /\ thr[t].op = "ensure_sheet_setup" /\ thr[t].pc = "done" /\ NotFailed(t)
        /\ thr[t].trace = <<"get_metadata", "create_sheet", "get_headers", "update_headers">>
        /\ EntrySheet \in titles /\ header[EntrySheet] = HEADERS
        /\ EntrySheet \in initialized

\* The errors raised by the validators.
ValidationErrors ==
    {"required", "invalid_status", "percentage", "date", "type_error",
     "mapping_both", "mapping_neither"}

\* C12: a list never raises a validation error for rows that appends through
\* the adapter wrote (the sheets start without rows and only appends add
\* rows): whatever an append accepts, the matching list accepts.
C12_ListAcceptsWhatAppendAccepted ==
    \A t \in Threads :
        thr[t].kind = "rows"
           => ~(thr[t].result.kind = "error" /\ thr[t].result.err \in ValidationErrors)

\* The value a goal record supplies for a column, under the aliases that
\* _validate_goal reads for it.
GoalSupplied(goal, column) ==
    CASE column = "goalid" -> Or(Get(goal, "goalid"), Or(Get(goal, "goal_id"), GetD(goal, "id", "")))
      [] column = "weightpercentage" ->
            Or(Get(goal, "weightpercentage"),
               Or(Get(goal, "weight_percentage"), GetD(goal, "weight", "")))
      [] column = "targetdate" -> Or(Get(goal, "targetdate"), GetD(goal, "target_date", ""))
      [] OTHER -> GetD(goal, column, "")

\* C13, for goals: when the Goals sheet holds just the row of an accepted
\* append_goal(goal) and get_goals has returned, the record it returns has,
\* for goal id, title, status, weight percentage and target date, the string
\* the goal supplied under the alias it used.
C13_GoalRoundTrip ==
    \A t \in Threads, goal \in GoalInputs :
        (/\ thr[t].op = "get_goals" /\ thr[t].pc = "done" /\ NotFailed(t)
         /\ _validate_goal(goal) = NoError
         /\ data["Goals"] = <<NormalizedValues(GoalValues(goal), GOAL_HEADERS)>>
         /\ Len(thr[t].result.val) = 1)
           => \A column \in {"goalid", "title", "status", "weightpercentage", "targetdate"} :
                 thr[t].result.val[1][column] = GoalSupplied(goal, column)

\* The remote append of thread t is applied in this step (its response may
\* be lost).
AppendApplied(t, sheet) ==
    /\ Calling(t, "append") /\ thr[t].sheet = sheet
    /\ data'[sheet] = Append(data[sheet], NormalizedValues(thr[t].values, HeadersOf(sheet)))

\* C14: in every step each sheet keeps its data rows or gains one row after
\* its last row; at most one sheet gains a row, and only the target sheet of
\* an append whose remote call is applied in that step; a step of a list
\* operation, and a step that creates a tab or writes a header, changes no
\* data row.
C14_RowsAreOnlyAppended ==
    [][/\ \A sheet \in Sheets :
             \/ data'[sheet] = data[sheet]
             \/ \E t \in Threads : thr[t].kind = "append" /\ AppendApplied(t, sheet)
       /\ Cardinality({sheet \in Sheets : data'[sheet] # data[sheet]}) <= 1
       /\ (\E t \in Threads : thr[t].kind # "append" /\ thr'[t] # thr[t]) => data' = data
       /\ (titles' # titles \/ header' # header) => data' = data]_vars

\* The entry tab held rows under a header that did not match; an append
\* rewrote the header and its row stands after the rows that were there.
C14_Witness ==
    \E t \in Threads :
        /\ thr[t].op = "append_entry" /\ thr[t].pc = "done" /\ NotFailed(t)
        /\ "update_headers" \in Range(thr[t].trace)
        /\ header[EntrySheet] = HEADERS
        /\ data[EntrySheet] = ExistingEntries \o <<NormalizedValues(thr[t].values, HEADERS)>>
        /\ data["Goals"] = ExistingGoals

ConfigurationErrors == {"CredentialsError", "sheet_missing", "header_mismatch"}

\* C15: an operation that fails with a configuration error or a validation
\* error made no repeated attempt for it: the error is not one that the retry
\* loop caught, and a credential error raised inside a request is the only
\* failed attempt of its call, with no wait after it.
C15_ConfigurationErrorsNeverRetried ==
    \A t \in Threads :
        /\ (\E e \in ValidationErrors \cup {"sheet_missing", "header_mismatch"} : FailedWith(t, e))
              => thr[t].call.status # "raised"
        /\ \A i \in 1..Len(thr[t].call.calls) :
              (~thr[t].call.calls[i].ok /\ thr[t].call.calls[i].val \in ConfigurationErrors)
                 => /\ i = 1
                    /\ thr[t].call.waits = <<>>
                    /\ thr[t].call.status = "raised"

\* C16: an append response that reports no written row is the last
\* underlying call of its append operation, which ends with the
\* 'did not write any rows' error; and that error has no other origin.
C16_EmptyAppendResponseIsAnError ==
    \A t \in Threads :
        /\ \A i \in 1..Len(thr[t].call.calls) :
              (thr[t].call.calls[i].ok /\ thr[t].call.calls[i].val = "no updates")
                 => /\ i = Len(thr[t].call.calls)
                    /\ thr[t].pc = "done"
                    /\ FailedWith(t, "no_rows_written")
        /\ FailedWith(t, "no_rows_written")
              => /\ thr[t].kind = "append"
                 /\ thr[t].call.status = "returned"
                 /\ Last(thr[t].call.calls) = [ok |-> TRUE, val |-> "no updates"]

\* An append whose first request failed and whose second returned an empty
\* response.
C16_Witness ==
    \E t \in Threads :
        /\ FailedWith(t, "no_rows_written")
        /\ Len(thr[t].call.calls) = 2
        /\ data[thr[t].sheet] = <<>>

\* The rows of the sheet are all the row of thread t's append.
CopiesOf(t) ==
    \A i \in 1..Len(data[thr[t].sheet]) :
        data[thr[t].sheet][i] = NormalizedValues(thr[t].values, HeadersOf(thr[t].sheet))

\* C17: for the first operation on empty sheets, an append that has returned
\* left between 1 and max_retries copies of its row, and an append that has
\* raised a transport error left between 0 and max_retries copies; while it
\* runs the sheet holds nothing but copies of its row.
C17_AppendIsAtLeastOnce ==
    \A t \in Threads :
        (ops = 1 /\ thr[t].kind = "append" /\ thr[t].pc # "idle")
           => /\ CopiesOf(t)
              /\ (thr[t].pc = "done" /\ NotFailed(t))
                    => (1 <= Len(data[thr[t].sheet]) /\ Len(data[thr[t].sheet]) <= max_retries)
              /\ FailedWith(t, "HttpError") => Len(data[thr[t].sheet]) <= max_retries

\* An append returned after a lost response: two copies of its row.
C17_Witness ==
    \E t \in Threads :
        /\ ops = 1 /\ thr[t].kind = "append" /\ thr[t].pc = "done" /\ NotFailed(t)
        /\ Len(data[thr[t].sheet]) = 2
        /\ CopiesOf(t)

\* The record of the last row of the Goals tab with the goal id.
LatestGoalRecord(goal_id) ==
    LET rows == data["Goals"]
        i == CHOOSE i \in 1..Len(rows) :
                /\ rows[i][1] = goal_id
                /\ \A j \in (i + 1)..Len(rows) : rows[j][1] # goal_id
    IN  _normalize_goal_row(rows[i]).record

\* C18: when a goal command has built the row it is about to append, the
\* record it carries fields forward from is the last row of the Goals tab
\* with that goal id.
C18_CarriesForwardFromLatestRow ==
    (log.command \in GoalCommands /\ log.pc = "append" /\ log.pending # <<>>)
       => log.existing = LatestGoalRecord(CommandGoalId(log.command, log.text))

CarriedForward ==
    {"description", "weightpercentage", "completionpercentage", "startdate", "enddate",
     "targetdate", "owner", "lifecyclestatus", "supersededby"}

\* C19: after a confirmed status update the row appended last holds, in
\* every column but status and notes (and the goal's id and title, which are
\* kept as well), the value of the record the update was built from.
C19_StatusUpdateCarriesEveryField ==
    (log.command = "goal_status" /\ log.pc = "finished" /\ log.reply = "saved")
       => LET appended == _normalize_goal_row(Last(data["Goals"])).record
          IN  /\ appended["status"] = parse_goal_status_change(log.text)["status"]
              /\ \A c \in CarriedForward \cup {"goalid", "title"} : appended[c] = log.existing[c]

\* C20: a milestone command that names a goal id and a milestone title is
\* answered with the result of an append, not with the usage message; a
\* confirmed completion leaves a GoalMilestones row with status Completed and
\* a completion date.
C20_MilestoneCommandsAppend ==
    (/\ log.command \in MilestoneCommands /\ log.pc = "finished" /\ log.storage
     /\ parse_goal_milestone(log.text) # ParseError
     /\ Truthy(Get(parse_goal_milestone(log.text), "goalid"))
     /\ Truthy(Get(parse_goal_milestone(log.text), "title")))
       => /\ log.reply \in {"saved", "save_failed"}
          /\ (log.reply = "saved" /\ log.command = "goal_milestone_done")
                => /\ data["GoalMilestones"] # <<>>
                   /\ Last(data["GoalMilestones"])[5] = "Completed"
                   /\ Last(data["GoalMilestones"])[4] # ""

\* The cell of column j of a stored row: empty when the row is too short.
Cell(row, j) == IF j <= Len(row) THEN row[j] ELSE ""
\* The stored row as one cell per schema column.
Cells(sheet, row) == [j \in 1..Len(HeadersOf(sheet)) |-> Cell(row, j)]
\* The columns whose empty cell reads back as a default.
ReadDefault(sheet, j) ==
    IF sheet = "Goals" /\ HeadersOf(sheet)[j] = "LifecycleStatus" THEN "Active" ELSE ""

\* C22: when a list of Goals or GoalMappings reads rows that are valid once
\* each is cut or padded with empty cells to the header's length, it returns
\* one record per row with exactly one key per schema column; every key holds
\* the row's cell, a missing or empty cell reading back as the empty string
\* (as "Active" for the Goals lifecycle status).
C22_ShortRowsArePadded ==
    [][\A t \in Threads :
          (/\ ListReadReturns(t)
           /\ header[thr[t].sheet] = HeadersOf(thr[t].sheet)
           /\ \A i \in 1..Len(data[thr[t].sheet]) :
                 NormalizeRow(thr[t].sheet, Cells(thr[t].sheet, data[thr[t].sheet][i])).error
                    = NoError)
             => LET sheet == thr[t].sheet
                    rows == data[sheet]
                    H == HeadersOf(sheet)
                    res == thr'[t].result
                IN  /\ res.kind = "ok"
                    /\ Len(res.val) = Len(rows)
                    /\ \A i \in 1..Len(rows) :
                          /\ DOMAIN res.val[i] = {Lower(H[j]) : j \in 1..Len(H)}
                          /\ \A j \in 1..Len(H) :
                                res.val[i][Lower(H[j])] =
                                   IF Cell(rows[i], j) = "" THEN ReadDefault(sheet, j)
                                   ELSE rows[i][j]]_vars

\* get_goals returned the records of a five-cell row and a seventeen-cell row
C22_Witness ==
    \E t \in Threads :
        /\ thr[t].op = "get_goals" /\ thr[t].pc = "done" /\ thr[t].result.kind = "ok"
        /\ data["Goals"] = <<<<"GOAL-2", "Mentor", "", "", "In Progress">>,
                             ExistingGoals[1] \o <<"beyond the schema">>>>
        /\ Len(thr[t].result.val) = 2
        /\ thr[t].result.val[1]["lifecyclestatus"] = "Active"
        /\ thr[t].result.val[1]["history"] = ""
        /\ thr[t].result.val[2]["goalid"] = "GOAL-1"

\* The positions of the stored rows of a sheet that fail validation.
InvalidRows(sheet) ==
    {i \in 1..Len(data[sheet]) : NormalizeRow(sheet, data[sheet][i]).error # NoError}

\* C23: a list that reads a domain sheet with a valid header returns one
\* record per data row, the i-th record decoded from the i-th row, when every
\* row is valid; otherwise it raises the validation error of the first
\* invalid row.
C23_ListReturnsEveryRowOrRaises ==
    [][\A t \in Threads :
          (ListReadReturns(t) /\ header[thr[t].sheet] = HeadersOf(thr[t].sheet))
             => LET sheet == thr[t].sheet
                    rows == data[sheet]
                    res == thr'[t].result
                IN  IF InvalidRows(sheet) = {}
                    THEN /\ res.kind = "ok"
                         /\ Len(res.val) = Len(rows)
                         /\ \A i \in 1..Len(rows) :
                               res.val[i] = NormalizeRow(sheet, rows[i]).record
                    ELSE /\ res.kind = "error"
                         /\ res.err \in ValidationErrors
                         /\ (res.row - 1) \in InvalidRows(sheet)
                         /\ \A j \in InvalidRows(sheet) : res.row - 1 <= j
                         /\ res.err = NormalizeRow(sheet, rows[res.row - 1]).error]_vars

\* get_goals returned two records in the order of the two rows.
C23_Witness ==
    \E t \in Threads :
        /\ thr[t].op = "get_goals" /\ thr[t].pc = "done" /\ thr[t].result.kind = "ok"
        /\ Len(data["Goals"]) = 2 /\ Len(thr[t].result.val) = 2
        /\ data["Goals"][1][1] = "GOAL-2" /\ data["Goals"][2][1] = "GOAL-1"
        /\ thr[t].result.val[1]["goalid"] = "GOAL-2"
        /\ thr[t].result.val[2]["goalid"] = "GOAL-1"

\* C24: a validation error that ends a list reports a row between 2 and the
\* last stored row plus one (the i-th data row as row i + 1), and a validation
\* error that ends an append before any request reports row 0.
C24_ValidationErrorsReportTheRow ==
    \A t \in Threads :
        (thr[t].pc = "done" /\ thr[t].result.kind = "error"
            /\ thr[t].result.err \in ValidationErrors \ {"type_error"})
           => /\ thr[t].kind = "rows"
                    => /\ thr[t].result.row >= 2
                       /\ thr[t].result.row <= Len(data[thr[t].sheet]) + 1
                       /\ NormalizeRow(thr[t].sheet,
                                       data[thr[t].sheet][thr[t].result.row - 1]).error
                             = thr[t].result.err
              /\ thr[t].kind = "append" => thr[t].result.row = 0

\* The positions of the stored mapping rows that name neither a goal nor a
\* competency.
RowsWithNeitherId ==
    {i \in 1..Len(data["GoalMappings"]) :
        Cell(data["GoalMappings"][i], 3) = "" /\ Cell(data["GoalMappings"][i], 4) = ""}

\* C25: when get_goal_mappings reads rows whose timestamp and date are well
\* formed, a row with both GoalID and CompetencyID is returned with both ids
\* (the normaliser only warns about it), a row with exactly one is returned,
\* and a row with neither makes the list raise the either/or validation error
\* for the first such row.
C25_ReadAcceptsDualMappingRows ==
    [][\A t \in Threads :
          (/\ ListReadReturns(t) /\ thr[t].sheet = "GoalMappings"
           /\ header["GoalMappings"] = GOAL_MAPPING_HEADERS
           /\ \A i \in 1..Len(data["GoalMappings"]) :
                 /\ Cell(data["GoalMappings"][i], 1) # ""
                 /\ _validate_date_field(Cell(data["GoalMappings"][i], 2), FALSE) = NoError)
             => LET rows == data["GoalMappings"]
                    res == thr'[t].result
                IN  IF RowsWithNeitherId = {}
                    THEN /\ res.kind = "ok"
                         /\ Len(res.val) = Len(rows)
                         /\ \A i \in 1..Len(rows) :
                               /\ res.val[i]["goalid"] = Cell(rows[i], 3)
                               /\ res.val[i]["competencyid"] = Cell(rows[i], 4)
                               /\ _normalize_goal_mapping_row(rows[i]).warning
                                     <=> (Cell(rows[i], 3) # "" /\ Cell(rows[i], 4) # "")
                    ELSE /\ res.kind = "error" /\ res.err = "mapping_neither"
                         /\ (res.row - 1) \in RowsWithNeitherId
                         /\ \A j \in RowsWithNeitherId : res.row - 1 <= j]_vars

\* get_goal_mappings returned a legacy row that holds both ids, after a row
\* that holds one.
C25_Witness ==
    \E t \in Threads :
        /\ thr[t].op = "get_goal_mappings" /\ thr[t].pc = "done" /\ thr[t].result.kind = "ok"
        /\ Len(data["GoalMappings"]) = 2 /\ Len(thr[t].result.val) = 2
        /\ data["GoalMappings"][1] = <<"2024-06-03T09:00:00", "2024-06-03", "GOAL-1">>
        /\ thr[t].result.val[1]["competencyid"] = ""
        /\ thr[t].result.val[2]["goalid"] = "GOAL-1"
        /\ thr[t].result.val[2]["competencyid"] = "communication"

\* C26: a list that ends without an error has issued its own read of the
\* sheet, and the read returns what the sheet holds at that moment: one record
\* per stored row, the last one decoded from the row most recently appended,
\* by this client or by another writer.  The result is a function of the
\* sheet alone, so two lists with no write between them return the same.
C26_ListsReadTheSheetEveryTime ==
    /\ [](\A t \in Threads :
             (thr[t].kind = "rows" /\ thr[t].pc = "done" /\ thr[t].result.kind = "ok")
                => /\ thr[t].trace # <<>>
                   /\ Last(thr[t].trace) = "get_rows")
    /\ [][\A t \in Threads :
             ListReadReturns(t)
                => thr'[t].result =
                      IF header[thr[t].sheet] # HeadersOf(thr[t].sheet)
                      THEN Err("header_mismatch", 0)
                      ELSE NormalizeRows(thr[t].sheet, data[thr[t].sheet])]_vars
    /\ [][\A t \in Threads :
             (ListReadReturns(t) /\ thr'[t].result.kind = "ok")
                => LET sheet == thr[t].sheet
                       H == HeadersOf(sheet)
                       n == Len(data[sheet])
                   IN  /\ Len(thr'[t].result.val) = n
                       /\ n > 0 =>
                             \A j \in 1..Len(H) :
                                thr'[t].result.val[n][Lower(H[j])] =
                                   IF Cell(data[sheet][n], j) = "" THEN ReadDefault(sheet, j)
                                   ELSE data[sheet][n][j]]_vars

\* get_goal_mappings returned the row this client appended to an empty tab
\* followed by the row another writer appended after it.
C26_Witness ==
    \E t \in Threads :
        /\ thr[t].op = "get_goal_mappings" /\ thr[t].pc = "done" /\ thr[t].result.kind = "ok"
        /\ data["GoalMappings"] = <<<<"2024-06-03T09:00:00", "2024-06-03", "GOAL-1", "", "">>,
                                    <<"2024-06-03T09:30:00", "2024-06-03", "GOAL-2">>>>
        /\ Len(thr[t].result.val) = 2
        /\ thr[t].result.val[1]["goalid"] = "GOAL-1"
        /\ thr[t].result.val[2]["goalid"] = "GOAL-2"
        /\ thr[t].result.val[2]["entrytimestamp"] = "2024-06-03T09:30:00"

\* The positions of the stored entry rows whose Date cell lies between the
\* two bounds, both included.
RowsInRange(start_date, end_date) ==
    {i \in 1..Len(data[EntrySheet]) :
        /\ StrLeq(Chars(start_date), Chars(Cell(data[EntrySheet][i], 2)))
        /\ StrLeq(Chars(Cell(data[EntrySheet][i], 2)), Chars(end_date))}

\* The read of get_entries_by_date_range on thread t returns in this step.
EntryReadReturns(t) ==
    /\ Calling(t, "get_entries") /\ thr'[t].pc = "done"
    /\ ~(thr'[t].result.kind = "error" /\ thr'[t].result.err = "HttpError")

\* C27: get_entries_by_date_range between two ISO dates returns one record
\* for each stored entry row whose Date cell d has start <= d <= end, and no
\* other record: the records are in sheet order, each has exactly the six
\* schema keys, a cell the row lacks reads back as the empty string, the
\* first row of the tab (the header) is not among them, and an empty tab
\* yields the empty list.
C27_DateRangeReturnsExactlyTheRowsInRange ==
    [][\A t \in Threads :
          EntryReadReturns(t)
             => LET rows == data[EntrySheet]
                    inr == RowsInRange(thr[t].arg[1], thr[t].arg[2])
                    res == thr'[t].result
                IN  /\ res.kind = "ok"
                    /\ Len(res.val) = Cardinality(inr)
                    /\ rows = <<>> => res.val = <<>>
                    /\ \A i \in inr :
                          LET k == Cardinality({j \in inr : j <= i})
                          IN  /\ DOMAIN res.val[k] = {Lower(HEADERS[c]) : c \in 1..Len(HEADERS)}
                              /\ \A c \in 1..Len(HEADERS) :
                                    res.val[k][Lower(HEADERS[c])] = Cell(rows[i], c)
                    /\ \A k \in 1..Len(res.val) :
                          res.val[k]["date"] \notin {"Date", header[EntrySheet][2]}]_vars

\* Of a row without a date and a three-cell row dated 2024-06-03, the range
\* 2024-06-01..2024-12-31 returned the second, its missing cells empty.
C27_Witness ==
    \E t \in Threads :
        /\ thr[t].op = "get_entries_by_date_range" /\ thr[t].pc = "done"
        /\ thr[t].result.kind = "ok"
        /\ thr[t].arg = <<"2024-06-01", "2024-12-31">>
        /\ data[EntrySheet] = <<<<"2024-06-03T09:00:00">>,
                                <<"2024-06-03T08:30:00", "2024-06-03", "task">>>>
        /\ Len(thr[t].result.val) = 1
        /\ thr[t].result.val[1]["date"] = "2024-06-03"
        /\ thr[t].result.val[1]["source"] = ""

\* C28: when a storage call made for a command ends with an exception and the
\* handler takes it, the handler finishes with the apologetic reply and not
\* with the confirmation.
C28_StorageErrorsGetAnApology ==
    [][\A t \in Threads :
          (/\ thr[t].owner = "log" /\ thr[t].pc = "done" /\ thr[t].result.kind = "error"
           /\ thr'[t].pc = "idle" /\ log.pc # "finished")
             => /\ log'.pc = "finished"
                /\ log'.reply = "save_failed"]_vars

\* The rollup string of goal g over the listed milestone records ms, from the
\* counts of the rows: "" for a goal without rows.
RollupOf(ms, g) ==
    LET mine == {i \in 1..Len(ms) : ms[i]["goalid"] = g}
        completed == {i \in mine : ms[i]["status"] = "Completed"}
        dates == {ms[i]["completiondate"] : i \in completed} \ {""}
    IN  IF mine = {} THEN <<>>
        ELSE <<Str(Cardinality(completed)), "/", Str(Cardinality(mine)), " done">>
                \o (IF dates = {} THEN <<>>
                    ELSE <<" (latest ",
                           CHOOSE d \in dates : \A e \in dates : StrLeq(Chars(e), Chars(d)),
                           ")">>)

\* C21: when the milestone read of a listing command returns its records, the
\* rollup put on each goal line is a function of those records alone: for the
\* line's goal id, total is the number of records with that id, done the
\* number of them whose status is exactly "Completed", the string is
\* "done/total done", followed by the greatest completion date (in string
\* order) of the completed records when one of them has a date; a goal
\* without records gets no rollup.
C21_RollupIsAFoldOverTheMilestones ==
    [][\A t \in Threads :
          (/\ thr[t].owner = "loop" /\ thr[t].pc = "done" /\ thr[t].result.kind = "ok"
           /\ thr'[t].pc = "idle")
             => /\ Len(log'.lines) > Len(log.lines)
                /\ \A k \in (Len(log.lines) + 1)..Len(log'.lines) :
                      log'.lines[k].rollup = RollupOf(thr[t].result.val, log'.lines[k].goalid)]_vars

\* /goal_list over three milestones of GOAL-1, two of them Completed: the
\* line of GOAL-1 carries "2/3 done (latest 2024-06-03)".
C21_Witness ==
    /\ log.pc = "finished" /\ log.reply = "goal_list"
    /\ data["GoalMilestones"] = <<<<"GOAL-1", "Beta", "", "2024-06-03", "Completed", "shipped">>,
                                  <<"GOAL-1", "Launch", "2024-12-31", "", "In Progress">>,
                                  <<"GOAL-1", "Kickoff", "", "2024-06-01", "Completed">>>>
    /\ log.lines[1] = [goalid |-> "GOAL-1",
                       rollup |-> <<"2", "/", "3", " done", " (latest ", "2024-06-03", ")">>]
    /\ log.lines[2] = [goalid |-> "GOAL-2", rollup |-> <<>>]

\* C29: every storage-client call in flight while a command is handled runs
\* on a worker thread that the handler awaits, none on the event loop.
C29_StorageCallsRunOnWorkers ==
    \A t \in Threads : thr[t].pc # "idle" => thr[t].owner # "loop"

C31_ExactlyOneCredentialSource ==
    LET file == Truthy(app.env.SERVICE_ACCOUNT_FILE)
        json == Truthy(app.env.SERVICE_ACCOUNT_JSON)
    IN  /\ (app.pc # "idle" /\ ~file /\ ~json) => app.pc = "config_error"
        /\ app.pc = "loaded" => (file # json)

\* The characters of s without the blanks at its two ends.
Unpadded(s) ==
    LET inner == {i \in 1..Len(s) : s[i] # " "}
    IN  IF inner = {} THEN <<>>
        ELSE LET lo == CHOOSE i \in inner : \A j \in inner : i <= j
                 hi == CHOOSE i \in inner : \A j \in inner : j <= i
             IN  SubSeq(s, lo, hi)

\* C32: every summarize call that has ended returned a summary: the fallback
\* formatter's output over the call's entries when the summarizer is
\* disabled, has no client, the provider raised, or the provider's value is
\* no string or is blank, and otherwise the provider's string without the
\* blanks at its ends; the provider is called at most once per call, and not
\* at all when the summarizer is disabled or has no client.
C32_SummarizerAlwaysReturns ==
    /\ app.calls <= 1
    /\ (~app.enabled \/ ~app.ai_client) => (app.calls = 0 /\ app.pc # "provider")
    /\ app.pc = "summarized"
          => LET usable == /\ app.enabled /\ app.ai_client
                           /\ app.provided.kind = "str"
                           /\ \E i \in 1..Len(app.provided.chars) : app.provided.chars[i] # " "
             IN  /\ app.summary.text # <<>>
                 /\ usable => app.summary = [from |-> "provider",
                                             text |-> Unpadded(app.provided.chars)]
                 /\ ~usable => app.summary = [from |-> "fallback",
                                              text |-> _format_summary(app.entries)]
                 /\ (app.enabled /\ app.ai_client) => app.calls = 1

\* The provider's " ok ! " was returned as "ok !".
C32_Witness ==
    /\ app.pc = "summarized" /\ app.calls = 1
    /\ app.provided = [kind |-> "str", chars |-> <<" ", "o", "k", " ", "!", " ">>]
    /\ app.summary = [from |-> "provider", text |-> <<"o", "k", " ", "!">>]

\* The place of a remote call in the order of an operation's calls.
CallRank(action) ==
    CASE action = "get_metadata" -> 1
      [] action = "create_sheet" -> 2
      [] action = "get_headers" -> 3
      [] action = "update_headers" -> 4
      [] OTHER -> 5

\* The calls of the trace were issued in the order of their ranks (a call
\* that is retried repeats its own rank).
InOrder(trace) ==
    \A i, j \in 1..Len(trace) : i < j => CallRank(trace[i]) <= CallRank(trace[j])

\* The operation on thread t makes one more underlying call of `action` in
\* this step.
Issues(t, action) == thr'[t].trace = Append(thr[t].trace, action)

\* C33: an operation that starts on a sheet outside the ready set issues its
\* calls in the order get-metadata, create-sheet, header read, header write,
\* data call, beginning with get-metadata and never reaching a header write
\* or a data call without a header read; it turns to create-sheet only when
\* the metadata lacks the tab and creation is allowed, and to the header
\* write only when the header row read is absent or different and rewriting
\* is allowed; a sheet enters the ready set only in the step in which the
\* header read or the header write of such an operation succeeds, as the
\* last of its initialisation calls; and every data append and data read is
\* issued while its sheet is in the ready set.
C33_InitialisationOrder ==
    /\ [](\A t \in Threads :
             ~thr[t].readyAtStart
                => /\ InOrder(thr[t].trace)
                   /\ thr[t].trace # <<>> => thr[t].trace[1] = "get_metadata"
                   /\ (\E i \in 1..Len(thr[t].trace) : CallRank(thr[t].trace[i]) >= 4)
                         => "get_headers" \in Range(thr[t].trace)
                   /\ "create_sheet" \in Range(thr[t].trace) => thr[t].create
                   /\ "update_headers" \in Range(thr[t].trace) => thr[t].allow)
    /\ [][\A t \in Threads :
             /\ (thr[t].pc = "get_metadata" /\ thr'[t].pc = "create_sheet")
                   => (thr[t].sheet \notin titles /\ thr[t].create)
             /\ (thr[t].pc = "get_headers" /\ thr'[t].pc = "update_headers")
                   => (header[thr[t].sheet] # HeadersOf(thr[t].sheet) /\ thr[t].allow)
             /\ (\E action \in {"append", "get_rows", "get_entries"} : Issues(t, action))
                   => thr[t].sheet \in initialized]_vars
    /\ [][\A sheet \in initialized' \ initialized :
             \E t \in Threads :
                /\ thr[t].sheet = sheet /\ ~thr[t].readyAtStart
                /\ (Issues(t, "get_headers") \/ Issues(t, "update_headers"))
                /\ thr'[t].result.kind # "error"
                /\ thr'[t].pc \in {"append", "get_rows", "get_entries", "done"}
                /\ InOrder(thr'[t].trace)
                /\ {"get_metadata", "get_headers"} \subseteq Range(thr'[t].trace)]_vars

\* An append that found the entry tab absent made the four initialisation
\* calls and then its append.
C33_Witness ==
    \E t \in Threads :
        /\ thr[t].pc = "done" /\ NotFailed(t) /\ thr[t].sheet \in initialized
        /\ thr[t].trace = <<"get_metadata", "create_sheet", "get_headers",
                            "update_headers", "append">>

\* The operation on thread t ended in an exception raised by the sheet
\* initialiser: a tab that is missing, a header that differs, or an
\* initialisation call that used up its retries.
InitFailed(t) ==
    /\ thr[t].pc = "done" /\ ~thr[t].readyAtStart /\ thr[t].trace # <<>>
    /\ \/ FailedWith(t, "sheet_missing")
       \/ FailedWith(t, "header_mismatch") /\ Last(thr[t].trace) = "get_headers"
       \/ FailedWith(t, "HttpError") /\ CallRank(Last(thr[t].trace)) <= 4

\* The underlying call `action` of thread t returns a response in this step.
Responds(t, action) ==
    /\ Calling(t, action) /\ Issues(t, action)
    /\ thr'[t].call.status # "calling" \/ thr'[t].pc # action
    /\ ~(thr'[t].result.kind = "error" /\ thr'[t].result.err = "HttpError")

\* C34: a failed initialisation is not memoised.  An operation that fails
\* inside the initialiser has made no data call, and the step in which any
\* operation fails adds nothing to the ready set; an operation that begins
\* on a sheet outside the ready set and passes its validation starts at the
\* metadata call, whatever failed before; and the initialiser judges the
\* spreadsheet as it is now: a metadata response that holds the tab leads to
\* the header read, a header row equal to the schema's puts the sheet in the
\* ready set and lets the operation go on, and "sheet is missing" and "header
\* mismatch" are raised only for a tab that is missing or a header that
\* differs at that moment.
C34_FailedInitNotMemoised ==
    /\ [](\A t \in Threads :
             InitFailed(t)
                => Range(thr[t].trace) \cap {"append", "get_rows", "get_entries"} = {})
    /\ [][\A t \in Threads :
             /\ (thr[t].result.kind # "error" /\ thr'[t].result.kind = "error")
                   => initialized' = initialized
             /\ (thr[t].pc = "idle" /\ thr'[t].pc # "idle"
                 /\ thr'[t].sheet \notin initialized /\ thr'[t].result.kind # "error")
                   => (thr'[t].pc = "get_metadata" /\ thr'[t].trace = <<>>)
             /\ Responds(t, "get_metadata")
                   => IF thr[t].sheet \in titles
                      THEN thr'[t].pc = "get_headers"
                      ELSE \/ thr[t].create /\ thr'[t].pc = "create_sheet"
                           \/ ~thr[t].create /\ thr'[t].result.err = "sheet_missing"
             /\ Responds(t, "get_headers")
                   => IF header[thr[t].sheet] = HeadersOf(thr[t].sheet)
                      THEN /\ thr[t].sheet \in initialized'
                           /\ thr'[t].result.kind # "error"
                           /\ thr'[t].pc \in {"append", "get_rows", "get_entries", "done"}
                      ELSE /\ thr[t].sheet \in initialized' => thr[t].sheet \in initialized
                           /\ \/ thr[t].allow /\ thr'[t].pc = "update_headers"
                              \/ ~thr[t].allow /\ thr'[t].result.err = "header_mismatch"]_vars

\* get_goal_mappings failed on a wrong header; the header was repaired; the
\* next get_goal_mappings started at the metadata call and returned.
C34_Witness ==
    /\ InitFailed("t1") /\ thr["t1"].op = "get_goal_mappings"
    /\ FailedWith("t1", "header_mismatch")
    /\ thr["t2"].op = "get_goal_mappings" /\ thr["t2"].pc = "done" /\ NotFailed("t2")
    /\ ~thr["t2"].readyAtStart
    /\ thr["t2"].trace = <<"get_metadata", "get_headers", "get_rows">>
    /\ "GoalMappings" \in initialized

\* The row of the entry the handler is logging is in the entry tab.
EntryRowStored ==
    \E r \in 1..Len(data[EntrySheet]) :
        data[EntrySheet][r] = NormalizedValues(EntryValues(log.record), HeadersOf(EntrySheet))

\* A mapping append of the handler begins on thread t in this step.
MappingAppendBegins(t) ==
    /\ thr[t].pc = "idle" /\ thr'[t].pc # "idle"
    /\ thr'[t].owner = "log" /\ thr'[t].op = "append_goal_mapping"

\* C35: the handler appends the entry row before it attempts any mapping
\* append: a mapping append begins only after the entry append returned
\* without exception, with the entry row stored.  When the entry append
\* fails the handler ends with the failure reply, hands no mapping to a
\* worker, and neither a mapping append nor the confirmation follows.  When
\* a mapping append fails the handler ends with the confirmation and the
\* entry row stays in the entry tab; no step removes a row of the entry tab.
C35_EntryBeforeMappings ==
    /\ [](/\ log.reply = "save_failed"
             => /\ log.pc = "finished" /\ log.pending = <<>> /\ LogThreads = {}
          /\ log.reply = "confirmation" => EntryRowStored
          /\ log.pc = "gather" => EntryRowStored)
    /\ [][\A t \in Threads :
             /\ MappingAppendBegins(t)
                   => (log.pc = "gather" \/ log.reply = "confirmation") /\ EntryRowStored
             /\ (log.pc = "entry" /\ log'.pc # "entry" /\ thr[t].owner = "log"
                 /\ thr[t].result.kind = "error")
                   => (log'.reply = "save_failed" /\ log'.pending = <<>>)
             /\ (log.reply = "save_failed" /\ log'.handled = log.handled)
                   => (log'.reply = "save_failed" /\ thr' = thr)
             /\ (log.pc = "gather" /\ thr[t].owner = "log" /\ thr[t].pc = "done"
                 /\ thr[t].result.kind = "error" /\ thr'[t].pc = "idle")
                   => (log'.pc = "finished" /\ log'.reply = "confirmation"
                       /\ data'[EntrySheet] = data[EntrySheet])]_vars
    /\ [][/\ Len(data'[EntrySheet]) >= Len(data[EntrySheet])
          /\ SubSeq(data'[EntrySheet], 1, Len(data[EntrySheet])) = data[EntrySheet]]_vars

\* The entry row is stored, the mapping tab is missing and holds no row, and
\* the user has the confirmation.
C35_Witness ==
    /\ log.pc = "finished" /\ log.reply = "confirmation"
    /\ log.text = "Shipped #goal:GOAL-1"
    /\ EntryRowStored
    /\ "GoalMappings" \notin titles /\ data["GoalMappings"] = <<>>
    /\ LogThreads = {}

\* The rows of the Goals tab that carry the goal id, in the order appended.
RowsOfGoal(goalid) == SelectSeq(data["Goals"], LAMBDA row : row[1] = goalid)

\* The lines of a section that name the goal itself (not one of its
\* milestones).
GoalLines(lines, goalid) ==
    {i \in 1..Len(lines) :
        /\ lines[i].goalid = goalid
        /\ "kind" \in DOMAIN lines[i] => lines[i].kind = "Goal"}

\* C36: the focus reminder takes each goal's state from its most recently
\* appended row: a goal whose latest row is Completed or archived has no line
\* in the upcoming section and none in the re-engage section, and no goal id
\* has more than one line in a section.
C36_FocusUsesLatestGoalRow ==
    app.pc = "focus_built"
       => \A goalid \in {"GOAL-1", "GOAL-2"} :
             /\ (/\ RowsOfGoal(goalid) # <<>>
                 /\ ~_goal_is_active(ZipRecord(GOAL_HEADERS, Last(RowsOfGoal(goalid)))))
                   => /\ GoalLines(app.upcoming_lines, goalid) = {}
                      /\ GoalLines(app.stale_lines, goalid) = {}
             /\ Cardinality(GoalLines(app.upcoming_lines, goalid)) <= 1
             /\ Cardinality(GoalLines(app.stale_lines, goalid)) <= 1

\* The ids of the records loaded under the key.
LoadedIds(records, key) == {records[i][key] : i \in 1..Len(records)}

\* The ids the kept mappings of an entry carry under the key, in their order.
MappedIds(entry, key) ==
    LET of == SelectSeq(app.mappings,
                        LAMBDA m : m["entrytimestamp"] = entry["timestamp"] /\ m[key] # "")
    IN  [i \in 1..Len(of) |-> of[i][key]]

\* C37: in the summary flow every entry read is sent, and each carries one
\* record per goal id and per competency id of its mappings: the loaded
\* record when the id is among the loaded goals (competencies), and the
\* id-only placeholder when it is not, be it that the tab has no such record
\* or that the load failed and gave the empty list; the error reply is sent
\* exactly when the entry read itself failed (and a storage client is
\* configured), whatever happened to the three optional loads.
C37_UnresolvedIdsBecomePlaceholders ==
    /\ app.pc = "summary_done"
          => /\ app.reply = "fetch_failed" <=> (log.storage /\ EntrySheet \in app.failed)
             /\ app.reply = "summary" <=> (log.storage /\ EntrySheet \notin app.failed)
    /\ (app.pc = "summary_done" /\ app.reply = "summary")
          => /\ Len(app.enriched) = Len(app.entries)
             /\ "Goals" \in app.failed => app.goals = <<>>
             /\ "Competencies" \in app.failed => app.competencies = <<>>
             /\ \A i \in 1..Len(app.enriched) :
                   /\ app.enriched[i].entry = app.entries[i]
                   /\ Len(app.enriched[i].goals) = Len(MappedIds(app.entries[i], "goalid"))
                   /\ Len(app.enriched[i].competencies)
                         = Len(MappedIds(app.entries[i], "competencyid"))
                   /\ \A k \in 1..Len(app.enriched[i].goals) :
                         LET id == MappedIds(app.entries[i], "goalid")[k]
                         IN  IF id \in LoadedIds(app.goals, "goalid")
                             THEN /\ app.enriched[i].goals[k] \in Range(app.goals)
                                  /\ app.enriched[i].goals[k]["goalid"] = id
                             ELSE app.enriched[i].goals[k] = [goalid |-> id]
                   /\ \A k \in 1..Len(app.enriched[i].competencies) :
                         LET id == MappedIds(app.entries[i], "competencyid")[k]
                         IN  IF id \in LoadedIds(app.competencies, "competencyid")
                             THEN /\ app.enriched[i].competencies[k] \in Range(app.competencies)
                                  /\ app.enriched[i].competencies[k]["competencyid"] = id
                             ELSE app.enriched[i].competencies[k] = [competencyid |-> id]

\* The goals load failed although the tab holds GOAL-1, the Competencies tab
\* has no record of "communication": the summary was sent with both attached
\* as placeholders.
C37_Witness ==
    /\ app.pc = "summary_done" /\ app.reply = "summary"
    /\ "Goals" \in app.failed /\ data["Goals"] # <<>>
    /\ "Competencies" \notin app.failed /\ data["Competencies"] = <<>>
    /\ Len(app.enriched) = 2
    /\ app.enriched[1].goals = <<[goalid |-> "GOAL-1"]>>
    /\ app.enriched[1].competencies = <<[competencyid |-> "communication"]>>

\* The handlers of the running application have no storage client to reach.
WithoutStorage == app.pc = "started" /\ ~log.storage

\* What holds of the storage client at startup: it is published only after
\* ensure_sheet_setup returned on it, so the entry sheet is in its ready set;
\* when the setup raised the application starts without it; and a command
\* handled without storage client is answered without any storage call.
StartupPublishesAfterSetup ==
    /\ log.storage => (app.pc = "started" /\ EntrySheet \in initialized)
    /\ (app.pc # "started" /\ app.pc # "setup") => \A t \in Threads : thr[t].pc = "idle"
    /\ WithoutStorage
          => /\ \A t \in Threads : thr[t].pc = "idle"
             /\ log.reply \in {"", "no_storage", "no_text"}
             /\ (log.handled > 0 /\ log.text # "") => log.reply = "no_storage"
             /\ data = [s \in Sheets |-> <<>>]

\* C38: the storage client is published to the handlers only after
\* ensure_sheet_setup succeeded on it; and if no spreadsheet id is configured,
\* or the setup raises, the application still starts, without a storage
\* client, and every storage-backed command is answered that storage is not
\* configured, with no storage call.
C38_StartsWithoutStorage ==
    /\ StartupPublishesAfterSetup
    /\ (app.pc # "idle" /\ ~Truthy(app.env.SPREADSHEET_ID)
        /\ app.env.SERVICE_ACCOUNT_JSON = "{\"client_email\": \"bot\"}")
          => app.pc = "started"

\* The wrapper has returned the result of its last underlying call, which
\* succeeded.
ReturnedASuccess ==
    /\ rt.calls # <<>>
    /\ Last(rt.calls) = [ok |-> TRUE, val |-> rt.result]

\* C39: for every max_retries >= 0 the retry wrapper returns normally only
\* with the result of an underlying call that succeeded, raises only the
\* error of an underlying call that failed, and never makes more than
\* max_retries underlying calls.
C39_ReturnsOnlyASuccess ==
    /\ rt.status = "returned" => ReturnedASuccess
    /\ rt.status = "raised"
          => (rt.calls # <<>> /\ Last(rt.calls) = [ok |-> FALSE, val |-> rt.error])
    /\ Len(rt.calls) <= max_retries

====
